---- MODULE Spec2Model ----
(***************************************************************************)
(* Model of the helios trading bot (JamieWells1/helios).                   *)
(*                                                                         *)
(*   Spec        the orchestrator: TradingBot.initialize/_load_state, the  *)
(*               live loop TradingBot.run with _get_strategy_signal,       *)
(*               _execute_buy, _execute_sell, _save_state, _shutdown, the  *)
(*               strategy's position state machine (BaseStrategy) and the  *)
(*               state file (StateManager).                                *)
(*   SpecTrader  one JupiterTrader.buy_sol_with_usdc / sell_sol_for_usdc   *)
(*               call after another: the outer quote-refresh loop,         *)
(*               get_quote, execute_swap, _get_swap_transaction and        *)
(*               SolanaClient.send_transaction.                            *)
(*   SpecRetry   one retried network call with its backoff.                *)
(*   SpecConfirm one SolanaClient.confirm_transaction call.                *)
(*   SpecStore   StateManager.save_state / load_state and the files of the *)
(*               state directory.                                          *)
(*   SpecComposite  one CompositeStrategy: construction, load_state,       *)
(*               signal requests, fills and restarts.                      *)
(*   SpecCandles the candles table under insert_candles_to_db.             *)
(*   SpecBacktest  TradingBot.backtest on a strategy that initialize()     *)
(*               loaded from the state file.                               *)
(*   SpecCatchUp the startup catch-up of the candle store in               *)
(*               TradingBot.initialize.                                    *)
(*                                                                         *)
(* An Optional[T] value is a set: {} is None, {x} is the value x.          *)
(***************************************************************************)
EXTENDS Integers, Sequences, FiniteSets, TLC

VARIABLES
    \* ---- orchestrator (src/src/main.py) and strategy (strategies/base.py)
    pc,                 \* where the process is in TradingBot.run
    shutdown_requested, \* main.py:30, the module-level stop flag
    position,           \* BaseStrategy.position: "flat" | "long"
    entry_price,        \* BaseStrategy.entry_price: Optional[price]
    current_price,      \* run(): current_price of the iteration, Optional
    usdc_balance,       \* run(): usdc_balance of the iteration, Optional
    sol_balance,        \* run(): sol_balance of the iteration, Optional
    signal,             \* run(): the Signal of the iteration
    evaluated,          \* which of should_buy / should_sell the signal step called
    votes,              \* what should_buy / should_sell answer in this iteration
    file,               \* the canonical state file: {} absent, {state} present
    handed,             \* the last dict handed to StateManager.save_state
    \* ---- history of the swaps the orchestrator asked for
    open_buys,          \* BUY signatures not yet closed by a SELL signature
    fill,               \* on-chain status of the last swap that returned a signature
    tick_fill,          \* the swap that returned a signature in this iteration
    tick_order,         \* what became of the order of this iteration: "none" |
                        \* "rejected" | "no_signature" | "signature"
    steps,              \* the steps of run() performed in this iteration, in order
    tick_error,         \* what was raised in this iteration: "none" |
                        \* "exception" | "keyboard_interrupt"
    swap_request,       \* the swap this iteration asked the trader for, Optional:
                        \* side, amount (USDC, or SOL as usdc / price) and the
                        \* balance the pre-flight check read
    preflight,          \* the balance check of this iteration's order: "none" |
                        \* "passed" | "failed"
    \* ---- trader (src/src/blockchain/trader.py)
    tpc,                \* where the call is in buy_sol_with_usdc/sell_sol_for_usdc
    side,               \* "buy" | "sell": which of the two is running
    attempt,            \* the outer loop variable `attempt`
    quote,              \* the local `quote` of the current outer attempt, Optional
    swap_response,      \* execute_swap: the swap-build response, Optional
    tx,                 \* execute_swap: the decoded transaction, Optional
    result,             \* what the call returned, Optional signature
    raised,             \* an exception escaped the call
    quotes_issued,      \* number of quotes get_quote has returned so far
    executions,         \* quote id -> number of execute_swap calls made with it
    submitted,          \* every transaction handed to send_raw_transaction
    log,                \* protocol events of the current call, in order
    calls,              \* number of buy/sell calls started
    \* ---- one retried network call (trader.py get_quote and
    \*      _get_swap_transaction, client.py send_transaction)
    rstate,             \* "idle" | "loop" | "done": where the call is
    fn,                 \* which of the three functions is running
    max_retries,        \* self.max_retries
    retry_delay,        \* self.retry_delay
    retries,            \* the local `retries`
    delay,              \* the local `delay`
    requests_made,      \* requests sent by the current call
    sleeps,             \* the arguments of time.sleep in the current call, in order
    returned,           \* "pending" | "value" | "none" | "raise": how the call ended
    \* ---- one SolanaClient.confirm_transaction call (client.py:213-270)
    cstate,             \* "idle" | "loop" | "done": where the call is
    max_wait_seconds,   \* the parameter max_wait_seconds
    poll_interval,      \* the parameter poll_interval
    elapsed,            \* time.time() - start_time
    polls,              \* get_signature_statuses calls made by the current call
    failed_polls,       \* those of them that raised or showed no status
    poll_started_at,    \* `elapsed` when the loop condition last let a poll start
    observed,           \* what the last poll observed
    terminal_seen,      \* some poll observed confirmed/finalized or an error
    confirmed,          \* "pending" | "true" | "false" | "raise": how the call ended
    \* ---- StateManager and the state directory (src/src/utils/state.py)
    spc,                \* where save_state is: "idle" | "mkstemp" | "dump" |
                        \* "move" | "copy" | "done"
    mem,                \* self.state, Optional
    sfile,              \* content of the canonical state file
    tmp,                \* content of the temporary file of the running save
    before,             \* content of the canonical file when the save started
    saved_input,        \* the dict the last save_state call was given, Optional
    save_result,        \* "pending" | "true" | "false" | "raise"
    loaded,             \* what the last load_state returned, Optional
    loaded_from,        \* content of the canonical file the last load_state met
    load_raised,        \* the last load_state raised
    \* ---- one CompositeStrategy and its sub-strategies
    \*      (src/src/strategies/composite.py, base.py)
    cpc,                \* "new" | "config_error" | "built" | "ready" | "decided"
    strategies,         \* self.strategies: position and entry price of each
    mode,               \* self.mode
    weights,            \* self.weights, Optional list (ten-thousandths)
    cposition,          \* the composite's own position
    centry_price,       \* the composite's own entry_price, Optional
    cprice,             \* the price of the current tick
    signals,            \* the list `signals` of the last should_buy/should_sell
    verdict,            \* what the last signal request returned
    clog,               \* the calls made on the strategies since the last
                        \* request began, in order
    cfill,              \* the fill of the current tick: "none" | "buy" | "sell"
    saved,              \* the state file the composite's state was last
                        \* written to, Optional JSON document
    \* ---- the candles table (src/seed_test_data.py insert_candles_to_db)
    rows,               \* the rows of the table
    rows_before,        \* the rows before the last insert_candles_to_db call
    batch,              \* the arguments of the last insert_candles_to_db call
    inserts,            \* number of insert_candles_to_db calls so far
    \* ---- TradingBot.backtest (src/src/main.py)
    bpc,                \* "new" | "ready" | "loop" | "done"
    bposition,          \* the strategy's position
    bentry_price,       \* the strategy's entry_price, Optional
    trade_size_usdc,    \* backtest(): position_size_usdc
    cash,               \* backtest(): cash
    sim_position,       \* backtest(): position, None or entry price and size
    trades,             \* the simulated orders so far, BUY and SELL in order
    candles_done,       \* number of candles the loop has gone through
    \* ---- startup catch-up (src/src/main.py initialize, CandleStore)
    kpc,                \* "start" | "checked" | "done"
    bars,               \* the stored series of the startup timeframe: its
                        \* contiguous runs of bars, oldest first
    bars_before,        \* the series before the startup fetch
    clock,              \* the time of the startup, in seconds
    timeframe_seconds,  \* seconds per bar of the startup timeframe
    required_count,     \* ohlc_startup_limit
    catch_up_info,      \* what get_catch_up_info returned, Optional
    provider,           \* the provider startup fetched from: "none" |
                        \* "historical" | "runtime"
    fetch_limit,        \* the limit of that fetch
    fetched             \* the run of bars that fetch returned, Optional

botVars == <<pc, shutdown_requested, position, entry_price, current_price,
             usdc_balance, sol_balance, signal, evaluated, votes, file, handed,
             open_buys, fill, tick_fill, tick_order, steps, tick_error,
             preflight, swap_request>>

traderVars == <<tpc, side, attempt, quote, swap_response, tx, result, raised,
                quotes_issued, executions, submitted, log, calls>>

retryVars == <<rstate, fn, max_retries, retry_delay, retries, delay,
               requests_made, sleeps, returned>>

confirmVars == <<cstate, max_wait_seconds, poll_interval, elapsed, polls,
                 failed_polls, poll_started_at, observed, terminal_seen,
                 confirmed>>

storeVars == <<spc, mem, sfile, tmp, before, saved_input,
               save_result, loaded, loaded_from, load_raised>>

compVars == <<cpc, strategies, mode, weights, cposition, centry_price,
              cprice, signals, verdict, clog, cfill, saved>>

candleVars == <<rows, rows_before, batch, inserts>>

backtestVars == <<bpc, bposition, bentry_price, trade_size_usdc, cash,
                  sim_position, trades, candles_done>>

catchupVars == <<kpc, bars, bars_before, clock, timeframe_seconds,
                 required_count, catch_up_info, provider, fetch_limit, fetched>>

moreVars == <<backtestVars, catchupVars>>

extraVars == <<compVars, candleVars, moreVars>>

auxVars == <<retryVars, confirmVars, storeVars, extraVars>>

vars == <<botVars, traderVars, auxVars>>

----------------------------------------------------------------------------
(* Bounds of the model *)

\* prices are 1..MaxPrice
MaxPrice == 2
\* datetime.utcnow() is drawn from 0..MaxTime
MaxTime == 1
\* open_buys stops counting at MaxOpen
MaxOpen == 2

\* buy/sell calls made in a run of SpecTrader
MaxCalls == 2

\* max_retries is configured as one of 0..MaxRetriesBound
MaxRetriesBound == 4

\* confirm_transaction is called with max_wait_seconds in 0..MaxWaitSeconds
MaxWaitSeconds == 3

(* Program constants *)

\* trader.py:264 and :320, max_quote_retries default
MaxQuoteRetries == 2

\* main.py:83 POSITION_SIZE_USDC default
PositionSizeUsdc == 100
\* main.py:84 MAX_POSITION_SIZE_USDC default
MaxPositionSizeUsdc == 1000
\* wallet.py:113 buffer_percent default
BufferPercent == 5

\* trader.py:34 and client.py:23, max_retries default
DefaultMaxRetries == 3
\* trader.py:35 and client.py:23, retry_delay default (seconds)
DefaultRetryDelay == 1
\* trader.py:112, :248 and client.py:205, the ceiling in min(delay * 2, 60)
MaxDelay == 60

None == {}
Some(x) == {x}
Val(o) == CHOOSE x \in o : TRUE

Prices == 1..MaxPrice
Times == 0..MaxTime
\* USDC balances the RPC may report: below the position size, below and at
\* the position size plus the buffer, and above the maximum position size
UsdcBalances == {50, 104, 105, 2000}
SolBalances == {0, 1}

FLAT == "flat"
LONG == "long"
BUY == "buy"
SELL == "sell"
HOLD == "hold"

Min(a, b) == IF a <= b THEN a ELSE b

----------------------------------------------------------------------------
(* BaseStrategy, src/src/strategies/base.py *)

\* get_signal without the position test in front of should_buy
GetSignal_NoPositionTest(pos, sb, ss) ==
    IF sb THEN [signal |-> BUY, evaluated |-> {"should_buy"}]
    ELSE IF pos = LONG /\ ss
         THEN [signal |-> SELL, evaluated |-> {"should_buy", "should_sell"}]
         ELSE [signal |-> HOLD, evaluated |-> {"should_buy", "should_sell"}]

\* get_signal, after update(): `position == FLAT and should_buy(...)`, then
\* `position == LONG and should_sell(...)`; Python's `and` evaluates its
\* right operand only when the left one is true.
GetSignal(pos, sb, ss) ==
    LET e1 == IF pos = FLAT THEN {"should_buy"} ELSE {}
        e2 == IF pos = LONG THEN {"should_sell"} ELSE {}
    IN  IF pos = FLAT /\ sb
        THEN [signal |-> BUY, evaluated |-> e1]
        ELSE IF pos = LONG /\ ss
             THEN [signal |-> SELL, evaluated |-> e1 \cup e2]
             ELSE [signal |-> HOLD, evaluated |-> e1 \cup e2]

\* on_buy(entry_price): position and entry_price, nothing else
OnBuy(price) == [position |-> LONG, entry_price |-> Some(price)]

\* on_sell that closes the position and keeps the price
OnSell_KeepsEntryPrice(price) == [position |-> FLAT, entry_price |-> Some(price)]

\* on_sell(exit_price)
OnSell(price) == [position |-> FLAT, entry_price |-> None]

\* get_position_size(available_balance)
GetPositionSize(available_balance) ==
    Min(Min(PositionSizeUsdc, available_balance), MaxPositionSizeUsdc)

\* get_state(): the dict handed to persistence; strategy_state is the
\* strategy's opaque map, which BaseStrategy itself never writes
GetState(pos, ep) ==
    [position |-> pos, entry_price |-> ep, strategy_state |-> "{}"]

\* load_state(state): Position(state.get('position', 'flat')) raises on a
\* value that is no Position, the except clause then keeps what was there
StrategyLoadState(pos, ep, state) ==
    LET position_str == IF "position" \in DOMAIN state THEN state.position ELSE FLAT
    IN  IF position_str \in {FLAT, LONG}
        THEN [position |-> position_str,
              entry_price |-> IF "entry_price" \in DOMAIN state
                              THEN state.entry_price ELSE None]
        ELSE [position |-> pos, entry_price |-> ep]

----------------------------------------------------------------------------
(* Wallet, src/src/blockchain/wallet.py *)

\* validate_balance(required_usdc, usdc_mint, buffer_percent = 5.0): reads the
\* balance again; None or below required * (1 + buffer/100) is a refusal
ValidateBalance_NoBuffer(required_usdc, balance_now) ==
    /\ balance_now # None
    /\ ~(Val(balance_now) < required_usdc)

ValidateBalance(required_usdc, balance_now) ==
    /\ balance_now # None
    /\ ~(Val(balance_now) * 100 < required_usdc * (100 + BufferPercent))

----------------------------------------------------------------------------
(* StateManager, src/src/utils/state.py *)

\* _get_default_state()
DefaultState(now) ==
    [position |-> FLAT, entry_price |-> None, entry_time |-> None,
     entry_amount_usdc |-> None, last_updated |-> now, strategy_state |-> "{}"]

\* load_state(): the default state when the file does not exist; the file is
\* written by save_state alone, so an existing file holds a saved state
LoadState(f, now) == IF f = {} THEN DefaultState(now) ELSE Val(f)

\* save_state(state): last_updated is stamped, the dict is written to a
\* temporary file which then replaces the canonical file; on IOError/OSError
\* the canonical file is left as it was and False is returned
SaveState(f, state, now, ok) ==
    LET stamped == [k \in DOMAIN state \cup {"last_updated"} |->
                       IF k = "last_updated" THEN now ELSE state[k]]
    IN  [file |-> IF ok THEN {stamped} ELSE f, saved |-> ok]

----------------------------------------------------------------------------
(* TradingBot, src/src/main.py *)

\* _get_strategy_signal, the candle path taken when OHLC data is used and
\* the strategy has should_buy_candles: update(), then if/elif on position
GetStrategySignalCandles(pos, sbc, ssc) ==
    IF pos = FLAT
    THEN IF sbc THEN [signal |-> BUY, evaluated |-> {"should_buy"}]
                ELSE [signal |-> HOLD, evaluated |-> {"should_buy"}]
    ELSE IF pos = LONG
         THEN IF ssc THEN [signal |-> SELL, evaluated |-> {"should_sell"}]
                     ELSE [signal |-> HOLD, evaluated |-> {"should_sell"}]
         ELSE [signal |-> HOLD, evaluated |-> {}]

\* what buy_sol_with_usdc / sell_sol_for_usdc hand back to the orchestrator:
\* a signature or None (SpecTrader below is the call itself)
TraderResults == {None, Some("SIG1")}

TickLocalsReset ==
    /\ current_price' = None
    /\ usdc_balance' = None
    /\ sol_balance' = None
    /\ signal' = HOLD
    /\ evaluated' = {}
    /\ votes' = [buy |-> FALSE, sell |-> FALSE]
    /\ tick_fill' = "none"
    /\ tick_order' = "none"
    /\ steps' = <<>>
    /\ tick_error' = "none"
    /\ preflight' = "none"
    /\ swap_request' = None

\* initialize() .. _load_state(): a fresh strategy (FLAT, no entry price)
\* loads what StateManager.load_state() returns; the stop flag of a new
\* process is False
Initialize ==
    /\ pc = "off"
    /\ \E now \in Times :
          LET state == LoadState(file, now)
              s == StrategyLoadState(FLAT, None, state)
          IN  /\ position' = s.position
              /\ entry_price' = s.entry_price
    /\ shutdown_requested' = FALSE
    /\ pc' = "loop"
    /\ TickLocalsReset
    /\ UNCHANGED <<file, handed, open_buys, fill>>
    /\ UNCHANGED traderVars
    /\ UNCHANGED auxVars

\* signal_handler: SIGINT/SIGTERM at any point of a running process
SignalHandler ==
    /\ pc # "off"
    /\ ~shutdown_requested
    /\ shutdown_requested' = TRUE
    /\ UNCHANGED <<pc, position, entry_price, current_price, usdc_balance,
                   sol_balance, signal, evaluated, votes, file, handed,
                   open_buys, fill, tick_fill, tick_order, steps>>
    /\ UNCHANGED <<tick_error, preflight,
                   swap_request>>
    /\ UNCHANGED traderVars
    /\ UNCHANGED auxVars

\* run(): `while not shutdown_requested` is true, the iteration starts. The
\* locals of the previous iteration are all assigned again before they are
\* read, so they are cleared here.
LoopEnter ==
    /\ pc = "loop"
    /\ ~shutdown_requested
    /\ pc' = "health"
    /\ TickLocalsReset
    /\ UNCHANGED <<shutdown_requested, position, entry_price, file, handed,
                   open_buys, fill>>
    /\ UNCHANGED traderVars
    /\ UNCHANGED auxVars

\* run() returning without _shutdown()'s save
Shutdown_NoSave ==
    /\ pc = "loop"
    /\ shutdown_requested
    /\ pc' = "off"
    /\ UNCHANGED <<shutdown_requested, position, entry_price, current_price,
                   usdc_balance, sol_balance, signal, evaluated, votes, file,
                   handed, open_buys, fill, tick_fill, tick_order, steps>>
    /\ UNCHANGED <<tick_error, preflight,
                   swap_request>>
    /\ UNCHANGED traderVars
    /\ UNCHANGED auxVars

\* run(): the loop condition is false; _shutdown() saves the state and run()
\* returns. The result of save_state is not looked at.
Shutdown ==
    /\ pc = "loop"
    /\ shutdown_requested
    /\ \E now \in Times, ok \in BOOLEAN :
          LET state == GetState(position, entry_price)
          IN  /\ handed' = Some(state)
              /\ file' = SaveState(file, state, now, ok).file
    /\ pc' = "off"
    /\ UNCHANGED <<shutdown_requested, position, entry_price, current_price,
                   usdc_balance, sol_balance, signal, evaluated, votes,
                   open_buys, fill, tick_fill, tick_order>>
    /\ steps' = Append(steps, "final_save")
    /\ UNCHANGED <<tick_error, preflight,
                   swap_request>>
    /\ UNCHANGED traderVars
    /\ UNCHANGED auxVars

\* run(): check_health(), and reconnect() when unhealthy; a failed
\* reconnection sleeps and continues with the next iteration
HealthCheck ==
    /\ pc = "health"
    /\ \E healthy \in BOOLEAN, reconnected \in BOOLEAN :
          pc' = IF healthy \/ reconnected THEN "refresh" ELSE "loop"
    /\ UNCHANGED <<shutdown_requested, position, entry_price, current_price,
                   usdc_balance, sol_balance, signal, evaluated, votes, file,
                   handed, open_buys, fill, tick_fill, tick_order>>
    /\ steps' = Append(steps, "health")
    /\ UNCHANGED <<tick_error, preflight,
                   swap_request>>
    /\ UNCHANGED traderVars
    /\ UNCHANGED auxVars

\* run(): the runtime candles are fetched and stored when OHLC data is used
\* (the step does nothing otherwise); the candle store is no part of this
\* specification
RefreshCandles ==
    /\ pc = "refresh"
    /\ pc' = "price"
    /\ steps' = Append(steps, "refresh")
    /\ UNCHANGED <<shutdown_requested, position, entry_price, current_price,
                   usdc_balance, sol_balance, signal, evaluated, votes, file,
                   handed, open_buys, fill, tick_fill, tick_order>>
    /\ UNCHANGED <<tick_error, preflight,
                   swap_request>>
    /\ UNCHANGED traderVars
    /\ UNCHANGED auxVars

\* the price fetch whose None does not skip the iteration
FetchPrice_NoSkip ==
    /\ pc = "price"
    /\ \E p \in {None} \cup {Some(x) : x \in Prices} : current_price' = p
    /\ pc' = "balances"
    /\ UNCHANGED <<shutdown_requested, position, entry_price, usdc_balance,
                   sol_balance, signal, evaluated, votes, file, handed,
                   open_buys, fill, tick_fill, tick_order>>
    /\ steps' = Append(steps, "price")
    /\ UNCHANGED <<tick_error, preflight,
                   swap_request>>
    /\ UNCHANGED traderVars
    /\ UNCHANGED auxVars

\* run(): the price fetch; None skips the iteration
FetchPrice ==
    /\ pc = "price"
    /\ \E p \in {None} \cup {Some(x) : x \in Prices} :
          /\ current_price' = p
          /\ pc' = IF p = None THEN "loop" ELSE "balances"
    /\ UNCHANGED <<shutdown_requested, position, entry_price, usdc_balance,
                   sol_balance, signal, evaluated, votes, file, handed,
                   open_buys, fill, tick_fill, tick_order>>
    /\ steps' = Append(steps, "price")
    /\ UNCHANGED <<tick_error, preflight,
                   swap_request>>
    /\ UNCHANGED traderVars
    /\ UNCHANGED auxVars

\* run(): both balance fetches; None for either skips the iteration
FetchBalances ==
    /\ pc = "balances"
    /\ \E s \in {None} \cup {Some(x) : x \in SolBalances},
          u \in {None} \cup {Some(x) : x \in UsdcBalances} :
          /\ sol_balance' = s
          /\ usdc_balance' = u
          /\ pc' = IF s = None \/ u = None THEN "loop" ELSE "signal"
    /\ UNCHANGED <<shutdown_requested, position, entry_price, current_price,
                   signal, evaluated, votes, file, handed, open_buys, fill,
                   tick_fill, tick_order>>
    /\ steps' = Append(steps, "balances")
    /\ UNCHANGED <<tick_error, preflight,
                   swap_request>>
    /\ UNCHANGED traderVars
    /\ UNCHANGED auxVars

\* run(): signal = self._get_strategy_signal(current_price); sb and ss are
\* what the strategy's predicates answer when they are asked
GetStrategySignal ==
    /\ pc = "signal"
    /\ \E sb \in BOOLEAN, ss \in BOOLEAN, ohlc \in BOOLEAN :
          LET r == IF ohlc THEN GetStrategySignalCandles(position, sb, ss)
                           ELSE GetSignal(position, sb, ss)
          IN  /\ signal' = r.signal
              /\ evaluated' = r.evaluated
              /\ votes' = [buy |-> sb, sell |-> ss]
    /\ pc' = "execute"
    /\ UNCHANGED <<shutdown_requested, position, entry_price, current_price,
                   usdc_balance, sol_balance, file, handed, open_buys, fill,
                   tick_fill, tick_order>>
    /\ steps' = Append(steps, "signal")
    /\ UNCHANGED <<tick_error, preflight,
                   swap_request>>
    /\ UNCHANGED traderVars
    /\ UNCHANGED auxVars

\* _save_state(): state = self.strategy.get_state(); save_state(state), whose
\* boolean result is dropped
SaveStateCall(pos, ep, now, ok) ==
    LET state == GetState(pos, ep)
    IN  /\ handed' = Some(state)
        /\ file' = SaveState(file, state, now, ok).file

\* run(): once the order of the iteration is dealt with, the balances and
\* what the strategy's predicates answered are not read again before the next
\* iteration assigns them
\* buy_sol_with_usdc(usdc_amount = position_size, ...) as _execute_buy
\* calls it, with the balance validate_balance() had read
BuyRequest(usdc_amount, balance_read) ==
    [side |-> BUY, amount |-> [num |-> usdc_amount, den |-> 1],
     balance_read |-> balance_read]

\* sol_amount = position_size_usdc / current_price, kept as the quotient
SolAmount(position_size_usdc, price) ==
    [num |-> position_size_usdc, den |-> price]

\* sell_sol_for_usdc(sol_amount = sol_amount, ...) as _execute_sell calls it
SellRequest(sol_amount, balance_read) ==
    [side |-> SELL, amount |-> sol_amount, balance_read |-> balance_read]

OrderLocalsDone ==
    /\ usdc_balance' = None
    /\ sol_balance' = None
    /\ evaluated' = {}
    /\ votes' = [buy |-> FALSE, sell |-> FALSE]

\* `if signature:` taken whatever the trader returned
Truthy_Always(signature) == TRUE

\* `if signature:` in _execute_buy (main.py:610) and _execute_sell (:643)
Truthy(signature) == signature # None

\* what became of the order: the pre-flight check refused it, the trader
\* returned None, or the trader returned a signature
OrderOutcome(validated, signature) ==
    IF ~validated THEN "rejected"
    ELSE IF signature = None THEN "no_signature" ELSE "signature"

\* _execute_buy(current_price, usdc_balance): the position size, the
\* pre-flight balance check, the swap, and on a signature on_buy() and
\* _save_state(). No confirmation of the signature is awaited.
ExecuteBuy ==
    /\ pc = "execute"
    /\ signal = BUY
    /\ pc' = "save"
    /\ steps' = Append(steps, "execute")
    /\ LET position_size == GetPositionSize(Val(usdc_balance))
       IN  \E balance_now \in {None} \cup {Some(x) : x \in UsdcBalances},
              signature \in TraderResults :
              /\ tick_order' = OrderOutcome(
                     ValidateBalance(position_size, balance_now), signature)
              /\ preflight' = IF ValidateBalance(position_size, balance_now)
                               THEN "passed" ELSE "failed"
              /\ swap_request' =
                    IF ValidateBalance(position_size, balance_now)
                    THEN Some(BuyRequest(position_size, Val(balance_now)))
                    ELSE None
              /\ IF ValidateBalance(position_size, balance_now)
                    /\ Truthy(signature)
                 THEN LET s == OnBuy(Val(current_price))
                      IN  /\ position' = s.position
                          /\ entry_price' = s.entry_price
                          /\ \E now \in Times, ok \in BOOLEAN :
                                SaveStateCall(s.position, s.entry_price, now, ok)
                          /\ open_buys' = Min(open_buys + 1, MaxOpen)
                          /\ fill' = "submitted"
                          /\ tick_fill' = BUY
                 ELSE UNCHANGED <<position, entry_price, file, handed,
                                  open_buys, fill, tick_fill>>
    /\ UNCHANGED <<shutdown_requested, current_price, signal>>
    /\ OrderLocalsDone
    /\ UNCHANGED tick_error
    /\ UNCHANGED traderVars
    /\ UNCHANGED auxVars

\* what get_position_size(0) answers in _execute_sell: BaseStrategy's own
\* min(position_size, 0, max_position_size), or the configured size when the
\* strategy in use overrides get_position_size and leaves the balance aside
SellPositionSizes == {GetPositionSize(0), PositionSizeUsdc}

\* _execute_sell: sol_amount = position_size_usdc / current_price, and the
\* test `sol_amount > sol_balance` (prices are positive)
NotEnoughSol(position_size_usdc, price, balance) ==
    position_size_usdc > balance * price

\* _execute_sell(current_price, sol_balance): too little SOL only logs a
\* warning; the swap, and on a signature on_sell() and _save_state()
ExecuteSell ==
    /\ pc = "execute"
    /\ signal = SELL
    /\ pc' = "save"
    /\ steps' = Append(steps, "execute")
    /\ \E position_size_usdc \in SellPositionSizes :
          /\ preflight' = IF NotEnoughSol(position_size_usdc,
                                          Val(current_price), Val(sol_balance))
                          THEN "failed" ELSE "passed"
          /\ swap_request' = Some(SellRequest(
                 SolAmount(position_size_usdc, Val(current_price)),
                 Val(sol_balance)))
    /\ \E signature \in TraderResults :
          /\ tick_order' = OrderOutcome(TRUE, signature)
          /\ IF Truthy(signature)
             THEN LET s == OnSell(Val(current_price))
                  IN  /\ position' = s.position
                      /\ entry_price' = s.entry_price
                      /\ \E now \in Times, ok \in BOOLEAN :
                            SaveStateCall(s.position, s.entry_price, now, ok)
                      /\ open_buys' = IF open_buys > 0 THEN open_buys - 1 ELSE 0
                      /\ fill' = "submitted"
                      /\ tick_fill' = SELL
             ELSE UNCHANGED <<position, entry_price, file, handed, open_buys,
                              fill, tick_fill>>
    /\ UNCHANGED <<shutdown_requested, current_price, signal>>
    /\ OrderLocalsDone
    /\ UNCHANGED tick_error
    /\ UNCHANGED traderVars
    /\ UNCHANGED auxVars

\* run(): the else branch, "No action (HOLD)"
NoAction ==
    /\ pc = "execute"
    /\ signal = HOLD
    /\ pc' = "save"
    /\ OrderLocalsDone
    /\ UNCHANGED <<shutdown_requested, position, entry_price, current_price,
                   signal, file, handed, open_buys, fill, tick_fill,
                   tick_order, steps>>
    /\ UNCHANGED <<tick_error, preflight,
                   swap_request>>
    /\ UNCHANGED traderVars
    /\ UNCHANGED auxVars

\* the end of the iteration without its self._save_state()
SaveStep_NoSave ==
    /\ pc = "save"
    /\ pc' = "sleep"
    /\ UNCHANGED <<shutdown_requested, position, entry_price, current_price,
                   usdc_balance, sol_balance, signal, evaluated, votes, file,
                   handed, open_buys, fill, tick_fill, tick_order, steps>>
    /\ UNCHANGED <<tick_error, preflight,
                   swap_request>>
    /\ UNCHANGED traderVars
    /\ UNCHANGED auxVars

\* run(): self._save_state() at the end of the iteration
SaveStep ==
    /\ pc = "save"
    /\ \E now \in Times, ok \in BOOLEAN :
          SaveStateCall(position, entry_price, now, ok)
    /\ pc' = "sleep"
    /\ UNCHANGED <<shutdown_requested, position, entry_price, current_price,
                   usdc_balance, sol_balance, signal, evaluated, votes,
                   open_buys, fill, tick_fill, tick_order>>
    /\ steps' = Append(steps, "save")
    /\ UNCHANGED <<tick_error, preflight,
                   swap_request>>
    /\ UNCHANGED traderVars
    /\ UNCHANGED auxVars

\* run(): time.sleep(check_interval_seconds), back to the loop condition
Sleep ==
    /\ pc = "sleep"
    /\ pc' = "loop"
    /\ UNCHANGED <<shutdown_requested, position, entry_price, current_price,
                   usdc_balance, sol_balance, signal, evaluated, votes, file,
                   handed, open_buys, fill, tick_fill, tick_order, steps>>
    /\ UNCHANGED <<tick_error, preflight,
                   swap_request>>
    /\ UNCHANGED traderVars
    /\ UNCHANGED auxVars

\* the program points inside the try block of run() at which a step runs
StepPcs == {"health", "refresh", "price", "balances", "signal", "execute",
            "save"}

\* run(): a step of the iteration raises an exception that is no
\* KeyboardInterrupt; `except Exception` takes over (the step is abandoned
\* before its effects)
StepRaises ==
    /\ pc \in StepPcs
    /\ pc' = "except"
    /\ tick_error' = "exception"
    /\ OrderLocalsDone
    /\ UNCHANGED <<shutdown_requested, position, entry_price, current_price,
                   signal, file, handed, open_buys, fill, tick_fill,
                   tick_order, steps, preflight,
                   swap_request>>
    /\ UNCHANGED traderVars
    /\ UNCHANGED auxVars

\* the handler that ends run() instead of going back to the loop
ErrorPause_Break ==
    /\ pc = "except"
    /\ pc' = "off"
    /\ UNCHANGED <<shutdown_requested, position, entry_price, current_price,
                   usdc_balance, sol_balance, signal, evaluated, votes, file,
                   handed, open_buys, fill, tick_fill, tick_order, steps,
                   tick_error, preflight,
                   swap_request>>
    /\ UNCHANGED traderVars
    /\ UNCHANGED auxVars

\* run(): the `except Exception` clause logs the error, sleeps
\* check_interval_seconds and falls through to the loop condition
ErrorPause ==
    /\ pc = "except"
    /\ pc' = "loop"
    /\ UNCHANGED <<shutdown_requested, position, entry_price, current_price,
                   usdc_balance, sol_balance, signal, evaluated, votes, file,
                   handed, open_buys, fill, tick_fill, tick_order, steps,
                   tick_error, preflight,
                   swap_request>>
    /\ UNCHANGED traderVars
    /\ UNCHANGED auxVars

\* run(): KeyboardInterrupt inside the try block (a process that left
\* SIGINT to Python's default handler, as the example scripts do): `break`,
\* then _shutdown() saves the state and run() returns
KeyboardInterruptBreak ==
    /\ pc \in StepPcs \cup {"sleep"}
    /\ tick_error' = "keyboard_interrupt"
    /\ \E now \in Times, ok \in BOOLEAN :
          SaveStateCall(position, entry_price, now, ok)
    /\ steps' = Append(steps, "final_save")
    /\ pc' = "off"
    /\ OrderLocalsDone
    /\ UNCHANGED <<shutdown_requested, position, entry_price, current_price,
                   signal, open_buys, fill, tick_fill, tick_order, preflight,
                   swap_request>>
    /\ UNCHANGED traderVars
    /\ UNCHANGED auxVars

\* run(): KeyboardInterrupt during the sleep of the `except Exception`
\* clause is caught by nothing: it leaves run() without _shutdown()
KeyboardInterruptInHandler ==
    /\ pc = "except"
    /\ tick_error' = "keyboard_interrupt"
    /\ pc' = "off"
    /\ UNCHANGED <<shutdown_requested, position, entry_price, current_price,
                   usdc_balance, sol_balance, signal, evaluated, votes, file,
                   handed, open_buys, fill, tick_fill, tick_order, steps,
                   preflight,
                   swap_request>>
    /\ UNCHANGED traderVars
    /\ UNCHANGED auxVars

\* the network: a submitted swap becomes confirmed/finalized or fails with an
\* error (the statuses SolanaClient.confirm_transaction can be shown)
ChainSettles ==
    /\ fill = "submitted"
    /\ \E outcome \in {"confirmed", "failed"} : fill' = outcome
    /\ UNCHANGED <<pc, shutdown_requested, position, entry_price,
                   current_price, usdc_balance, sol_balance, signal, evaluated,
                   votes, file, handed, open_buys, tick_fill, tick_order, steps>>
    /\ UNCHANGED <<tick_error, preflight,
                   swap_request>>
    /\ UNCHANGED traderVars
    /\ UNCHANGED auxVars

TraderIdle ==
    /\ tpc = "idle"
    /\ side = BUY
    /\ attempt = 0
    /\ quote = None
    /\ swap_response = None
    /\ tx = None
    /\ result = None
    /\ raised = FALSE
    /\ quotes_issued = 0
    /\ executions = <<>>
    /\ submitted = {}
    /\ log = <<>>
    /\ calls = 0

\* no retried call is running; the clients were built with the default
\* max_retries and retry_delay
RetryIdle ==
    /\ rstate = "idle"
    /\ fn = "get_quote"
    /\ max_retries = DefaultMaxRetries
    /\ retry_delay = DefaultRetryDelay
    /\ retries = 0
    /\ delay = DefaultRetryDelay
    /\ requests_made = 0
    /\ sleeps = <<>>
    /\ returned = "pending"

\* what a poll observes before any poll was made
NoObservation == [kind |-> "nothing", level |-> "none", err |-> FALSE]

\* no confirm_transaction call is running
ConfirmIdle ==
    /\ cstate = "idle"
    /\ max_wait_seconds = 1
    /\ poll_interval = 1
    /\ elapsed = 0
    /\ polls = 0
    /\ failed_polls = 0
    /\ poll_started_at = 0
    /\ observed = NoObservation
    /\ terminal_seen = FALSE
    /\ confirmed = "pending"

\* a file that does not exist
Absent == [kind |-> "absent", doc |-> {}]

\* no save_state or load_state call is running on an empty state directory
StoreIdle ==
    /\ spc = "idle"
    /\ mem = None
    /\ sfile = Absent
    /\ tmp = Absent
    /\ before = Absent
    /\ saved_input = None
    /\ save_result = "pending"
    /\ loaded = None
    /\ loaded_from = Absent
    /\ load_raised = FALSE

\* no composite strategy has been asked for
CompositeIdle ==
    /\ cpc = "new"
    /\ strategies = <<>>
    /\ mode = "all"
    /\ weights = None
    /\ cposition = FLAT
    /\ centry_price = None
    /\ cprice = 1
    /\ signals = <<>>
    /\ verdict = HOLD
    /\ clog = <<>>
    /\ cfill = "none"
    /\ saved = None

\* an empty candles table, nothing inserted yet
CandlesIdle ==
    /\ rows = {}
    /\ rows_before = {}
    /\ batch = [timeframe |-> "1m", candles |-> <<>>]
    /\ inserts = 0

\* no backtest was started
BacktestIdle ==
    /\ bpc = "new"
    /\ bposition = FLAT
    /\ bentry_price = None
    /\ trade_size_usdc = PositionSizeUsdc
    /\ cash = 0
    /\ sim_position = None
    /\ trades = <<>>
    /\ candles_done = 0

\* an empty store, no startup yet
CatchUpIdle ==
    /\ kpc = "start"
    /\ bars = <<>>
    /\ bars_before = <<>>
    /\ clock = 0
    /\ timeframe_seconds = 60
    /\ required_count = 1
    /\ catch_up_info = None
    /\ provider = "none"
    /\ fetch_limit = 0
    /\ fetched = None

MoreIdle == BacktestIdle /\ CatchUpIdle

ExtraIdle == CompositeIdle /\ CandlesIdle /\ MoreIdle

AuxIdle == RetryIdle /\ ConfirmIdle /\ StoreIdle /\ ExtraIdle

\* a process that has not started yet, no state file, nothing on chain
Init ==
    /\ pc = "off"
    /\ shutdown_requested = FALSE
    /\ position = FLAT
    /\ entry_price = None
    /\ current_price = None
    /\ usdc_balance = None
    /\ sol_balance = None
    /\ signal = HOLD
    /\ evaluated = {}
    /\ votes = [buy |-> FALSE, sell |-> FALSE]
    /\ file = {}
    /\ handed = None
    /\ open_buys = 0
    /\ fill = "none"
    /\ tick_fill = "none"
    /\ tick_order = "none"
    /\ steps = <<>>
    /\ tick_error = "none"
    /\ preflight = "none"
    /\ swap_request = None
    /\ TraderIdle
    /\ AuxIdle

Next ==
    \/ Initialize
    \/ SignalHandler
    \/ LoopEnter
    \/ Shutdown
    \/ HealthCheck
    \/ RefreshCandles
    \/ FetchPrice
    \/ FetchBalances
    \/ GetStrategySignal
    \/ ExecuteBuy
    \/ ExecuteSell
    \/ NoAction
    \/ SaveStep
    \/ Sleep
    \/ StepRaises
    \/ ErrorPause
    \/ KeyboardInterruptBreak
    \/ KeyboardInterruptInHandler
    \/ ChainSettles

Spec == Init /\ [][Next]_vars

----------------------------------------------------------------------------
(* Claims about the orchestrator, checked under Spec *)

\* C1: across ticks, swaps, saves and restarts at most one position is open:
\* no BUY returns a signature while an earlier BUY signature has not been
\* closed by a SELL signature.
C1_AtMostOneOpenPosition == open_buys <= 1

\* C2: the position changes only through a confirmed fill; a swap that was
\* only submitted, or whose confirmation is unknown or failed, changes nothing.
\* (Steps of a running process; the load at process start is no transition.)
C2_PositionChangesOnlyOnConfirmedFill ==
    [][(pc # "off" /\ position' # position) => fill' = "confirmed"]_vars

\* C3: when FLAT, a BUY signal and a swap that returned a signature leave the
\* position LONG with the tick's price as entry price, and the state file
\* holds position long with that entry price before the next tick begins.
C3_BuyPersistedBeforeNextTick ==
    (pc \in {"sleep", "loop"} /\ tick_fill = BUY) =>
        /\ position = LONG
        /\ entry_price = current_price
        /\ file # {}
        /\ Val(file).position = LONG
        /\ Val(file).entry_price = current_price

\* C4: the signal is BUY exactly when the position is FLAT and should_buy is
\* true, SELL exactly when it is LONG and should_sell is true, HOLD
\* otherwise; should_buy is not evaluated while LONG, should_sell not while
\* FLAT (both signal paths).
C4_SignalFollowsPosition ==
    pc = "execute" =>
        /\ signal = BUY <=> (position = FLAT /\ votes.buy)
        /\ signal = SELL <=> (position = LONG /\ votes.sell)
        /\ signal \in {BUY, SELL, HOLD}
        /\ position = LONG => "should_buy" \notin evaluated
        /\ position = FLAT => "should_sell" \notin evaluated

\* C4 witness: LONG, should_buy would answer true, and the signal is HOLD
C4_Witness ==
    pc = "execute" /\ position = LONG /\ votes.buy /\ ~votes.sell /\ signal = HOLD

\* C5: a successful BUY leaves the strategy LONG with entry price and entry
\* time recorded, a successful SELL leaves it FLAT with both cleared, and the
\* state handed to persistence carries position, entry_price and entry_time.
C5_FillRecordsEntryPriceAndTime ==
    /\ (pc = "save" /\ tick_fill = BUY) =>
          /\ position = LONG
          /\ entry_price = current_price
          /\ handed # None
          /\ Val(handed).position = LONG
          /\ Val(handed).entry_price = current_price
          /\ "entry_time" \in DOMAIN Val(handed)
          /\ Val(handed).entry_time # None
    /\ (pc = "save" /\ tick_fill = SELL) =>
          /\ position = FLAT
          /\ entry_price = None
          /\ handed # None
          /\ Val(handed).position = FLAT
          /\ Val(handed).entry_price = None
          /\ "entry_time" \in DOMAIN Val(handed) => Val(handed).entry_time = None

\* C12: when a buy or sell call returns no signature the order counts as
\* not filled: neither on_buy nor on_sell is invoked, position and entry
\* price (and the state file) stay as they were, and the iteration goes on
\* to its end, from where the loop takes the next tick.
C12_NoSignatureNoFill ==
    [][(pc = "execute" /\ tick_order' = "no_signature") =>
          /\ tick_fill' = "none"
          /\ position' = position
          /\ entry_price' = entry_price
          /\ open_buys' = open_buys
          /\ file' = file
          /\ pc' = "save"]_vars

\* a SELL whose call returned no signature: the position is still long at
\* the loop condition of the next tick
C12_Witness ==
    /\ pc = "loop"
    /\ ~shutdown_requested
    /\ signal = SELL
    /\ tick_order = "no_signature"
    /\ tick_fill = "none"
    /\ position = LONG

\* the steps of an iteration in the order of run(), the save of _shutdown()
\* behind them
StepRank(step) ==
    CASE step = "health" -> 1
      [] step = "refresh" -> 2
      [] step = "price" -> 3
      [] step = "balances" -> 4
      [] step = "signal" -> 5
      [] step = "execute" -> 6
      [] step = "save" -> 7
      [] step = "final_save" -> 8

\* the current iteration went through its persistence step and nothing
\* changed the strategy's state since
Persisted ==
    /\ Len(steps) > 0
    /\ steps[Len(steps)] = "save"
    /\ handed = Some(GetState(position, entry_price))

\* C19: every iteration of the live loop performs its steps in the order
\* health check, candle refresh, price fetch, balance fetch, signal
\* evaluation, optional execution, state persistence: no step is repeated or
\* taken out of order, a step is reached only through the steps that must
\* precede it (execution is optional), and an iteration
\* that got as far as the signal hands over to the next one only after its
\* persistence step has completed. An iteration that a failed reconnection,
\* price fetch or balance fetch skips ends before the signal; an iteration
\* that an exception abandons has no further step.
C19_StepsInOrder ==
    /\ [](/\ \A i, j \in 1..Len(steps) :
                i < j => StepRank(steps[i]) < StepRank(steps[j])
          /\ \A i \in 1..Len(steps) :
                steps[i] # "final_save" =>
                    \A m \in {"health", "refresh", "price", "balances",
                              "signal"} :
                        StepRank(m) < StepRank(steps[i]) =>
                            \E k \in 1..(i - 1) : steps[k] = m
          /\ (pc \in {"sleep", "loop"} /\ tick_error = "none"
                /\ \E i \in 1..Len(steps) : steps[i] = "signal")
                => Persisted)
    /\ [][(pc # "health" /\ pc' = "health") =>
             /\ pc = "loop"
             /\ steps = <<>> \/ Persisted \/ tick_error = "exception"
                   \/ steps[Len(steps)] \in {"health", "price", "balances"}
             /\ steps' = <<>>]_vars

\* a complete iteration with candle refresh and an executed order stands at
\* the loop condition, from where the next iteration starts
C19_Witness ==
    /\ pc = "loop"
    /\ ~shutdown_requested
    /\ steps = <<"health", "refresh", "price", "balances", "signal",
                 "execute", "save">>
    /\ tick_order = "signature"

C21_ExceptionDoesNotEndLoop ==
    [][/\ (pc \in StepPcs /\ tick_error' = "exception") =>
             /\ pc' = "except"
             /\ UNCHANGED <<position, entry_price, file>>
       /\ (pc = "except" /\ pc' # pc /\ tick_error' = "exception") =>
             pc' = "loop"
       /\ (pc = "loop" /\ tick_error = "exception" /\ pc' # pc) =>
             IF shutdown_requested THEN pc' = "off" ELSE pc' = "health"
       /\ (pc # "off" /\ pc' = "off") =>
             \/ pc = "loop" /\ shutdown_requested
             \/ tick_error' = "keyboard_interrupt"]_vars

\* an iteration whose order had returned a signature raised in its save
\* step, and the process stands at the loop condition, the flag not set
C21_Witness ==
    /\ pc = "loop"
    /\ ~shutdown_requested
    /\ tick_error = "exception"
    /\ tick_order = "signature"
    /\ steps = <<"health", "refresh", "price", "balances", "signal",
                 "execute">>

C23_NoResultSkipsTick ==
    /\ [](/\ pc \in {"signal", "execute"} =>
                current_price # None /\ sol_balance # None
                    /\ usdc_balance # None
          /\ (Len(steps) > 0 /\ tick_error = "none"
                /\ \/ steps[Len(steps)] = "price" /\ current_price = None
                   \/ steps[Len(steps)] = "balances"
                         /\ (sol_balance = None \/ usdc_balance = None)) =>
                /\ pc = "loop"
                /\ evaluated = {}
                /\ tick_order = "none"
                /\ tick_fill = "none")
    /\ [][(/\ tick_error' = "none"
           /\ pc' # pc
           /\ \/ pc = "price" /\ current_price' = None
              \/ pc = "balances"
                    /\ (sol_balance' = None \/ usdc_balance' = None)) =>
             /\ pc' = "loop"
             /\ UNCHANGED <<position, entry_price, file, handed, open_buys,
                            fill, signal, evaluated, tick_order, tick_fill>>]_vars

\* a tick skipped for want of a price while the position is long: the
\* process stands at the loop condition, the flag not set
C23_Witness ==
    /\ pc = "loop"
    /\ ~shutdown_requested
    /\ tick_error = "none"
    /\ steps = <<"health", "refresh", "price">>
    /\ current_price = None
    /\ position = LONG

\* C34: an executed SELL hands the trader the configured position size in
\* USDC divided by the current price as its SOL amount, a strictly positive
\* amount because the configured size and the price are positive.
C34_SellAmountIsConfiguredSize ==
    [][(pc = "execute" /\ signal = SELL /\ swap_request' # None) =>
          LET r == Val(swap_request')
          IN  /\ r.side = SELL
              /\ r.amount = SolAmount(PositionSizeUsdc, Val(current_price))
              /\ r.amount.num > 0
              /\ r.amount.den > 0]_vars

\* C40: a BUY swap is requested only with a USDC amount that is at most the
\* configured position size, at most the configured maximum and at most the
\* USDC balance read in the tick, and only when the balance the pre-flight
\* check read is at least 105% of the amount; an order the trader was asked
\* for is always such a request.
C40_BuyAmountWithinLimits ==
    [][(pc = "execute" /\ signal = BUY /\ pc' # pc) =>
          /\ tick_order' \in {"no_signature", "signature"} =>
                swap_request' # None
          /\ swap_request' # None =>
                LET r == Val(swap_request')
                IN  /\ r.side = BUY
                    /\ r.amount.den = 1
                    /\ r.amount.num <= PositionSizeUsdc
                    /\ r.amount.num <= MaxPositionSizeUsdc
                    /\ r.amount.num <= Val(usdc_balance)
                    /\ r.balance_read * 100 >= r.amount.num * 105]_vars

\* a BUY was requested for the whole balance of the tick, which is below the
\* configured size, after the pre-flight check read a larger balance
C40_Witness ==
    /\ pc = "save"
    /\ signal = BUY
    /\ tick_order = "signature"
    /\ swap_request # None
    /\ Val(swap_request).amount.num = 50
    /\ Val(swap_request).balance_read = 104

----------------------------------------------------------------------------
(* JupiterTrader, src/src/blockchain/trader.py, and                        *)
(* SolanaClient.send_transaction, src/src/blockchain/client.py             *)
(*                                                                         *)
(* The bounded HTTP/RPC retry loops inside get_quote,                      *)
(* _get_swap_transaction and send_transaction appear here by their result. *)

Ev(name, q) == [ev |-> name, q |-> q]

\* get_quote: the parsed response on success; None when every attempt ended
\* in a RequestException and when any other exception was caught. An empty
\* response is falsy for the caller's `if not quote`, like None.
GetQuote(http, id) ==
    IF http = "ok" THEN Some(id) ELSE None

\* the for loop of buy_sol_with_usdc / sell_sol_for_usdc goes on with off by
\* one: range(max_quote_retries + 2)
NextAttempt_OneMore(att) ==
    IF att < MaxQuoteRetries + 1
    THEN [tpc |-> "quote", attempt |-> att + 1]
    ELSE [tpc |-> "done", attempt |-> att]

\* `for attempt in range(max_quote_retries + 1)`: the next iteration, or the
\* end of the loop and `return None`
NextAttempt(att) ==
    IF att < MaxQuoteRetries
    THEN [tpc |-> "quote", attempt |-> att + 1]
    ELSE [tpc |-> "done", attempt |-> att]

\* a loop that goes on to its next attempt although execute_swap returned a
\* signature
ReturnResult_NextAttempt(att) == NextAttempt(att)

\* `if result: return result`: the call is over, in the attempt it is in
ReturnResult(att) == [tpc |-> "done", attempt |-> att]

\* execute_swap that takes every returned transaction as signed already
IsSigned_AssumePresigned(first_sig) == TRUE

\* execute_swap: is_signed = bytes(tx.signatures[0]) != bytes(64)
IsSigned(first_sig) == first_sig # "placeholder"

\* send_transaction that hands back a signature whatever the RPC answered
SendTransaction_AlwaysSignature(rpc, t) == Some(t.quote)

\* send_transaction(signed_tx): the signature the RPC returned; None without
\* a client, without a value in the response, after max_retries RPC errors
\* and on any other exception
SendTransaction(rpc, t) ==
    IF rpc = "signature" THEN Some(t.quote) ELSE None

\* the transactions send_transaction hands to send_raw_transaction
Handed(rpc, t) == IF rpc = "no_client" THEN {} ELSE {t}

RpcOutcomes == {"signature", "no_value", "rpc_error", "no_client"}

\* the swap-build responses: None (request failed), a response without
\* swapTransaction, or one with a transaction whose first signature slot is
\* the all-zero placeholder or a signature of the aggregator's, with or
\* without simulationError
SwapResponses ==
    {None}
    \cup {Some([swapTransaction |-> None, simulationError |-> FALSE])}
    \cup {Some([swapTransaction |-> Some([first_sig |-> f, decodable |-> d]),
                simulationError |-> e]) :
             f \in {"placeholder", "jupiter"}, d \in BOOLEAN, e \in BOOLEAN}

\* execute_swap returned None to a loop that calls execute_swap again with
\* the quote it already has
ExecuteSwapReturnsNone_SameQuote(events) ==
    /\ log' = log \o events \o <<Ev("EXEC_FAILED", Val(quote))>>
    /\ tpc' = IF attempt < MaxQuoteRetries THEN "build" ELSE "done"
    /\ attempt' = IF attempt < MaxQuoteRetries THEN attempt + 1 ELSE attempt
    /\ UNCHANGED quote
    /\ swap_response' = None
    /\ tx' = None
    /\ UNCHANGED <<result, raised>>

\* execute_swap returned None: `if result` is false, the warning is logged
\* and the for loop goes on; `quote` is assigned by get_quote before it is
\* read again
ExecuteSwapReturnsNone(events) ==
    /\ log' = log \o events \o <<Ev("EXEC_FAILED", Val(quote))>>
    /\ tpc' = NextAttempt(attempt).tpc
    /\ attempt' = NextAttempt(attempt).attempt
    /\ quote' = None
    /\ swap_response' = None
    /\ tx' = None
    /\ UNCHANGED <<result, raised>>

\* buy_sol_with_usdc(...) or sell_sol_for_usdc(...) is called
StartCall ==
    /\ tpc = "idle"
    /\ calls < MaxCalls
    /\ \E sd \in {BUY, SELL} : side' = sd
    /\ calls' = calls + 1
    /\ attempt' = 0
    /\ quote' = None
    /\ swap_response' = None
    /\ tx' = None
    /\ result' = None
    /\ raised' = FALSE
    /\ submitted' = {}
    /\ log' = <<>>
    /\ tpc' = "quote"
    /\ UNCHANGED <<quotes_issued, executions>>
    /\ UNCHANGED botVars
    /\ UNCHANGED auxVars

\* the loop body up to `if not quote: continue`
GetQuoteStep ==
    /\ tpc = "quote"
    /\ \E http \in {"ok", "empty", "request_exception", "other_exception"} :
          LET q == GetQuote(http, quotes_issued + 1)
          IN  IF q # None
              THEN /\ quote' = q
                   /\ quotes_issued' = quotes_issued + 1
                   /\ executions' = Append(executions, 0)
                   /\ log' = log \o <<Ev("QUOTE_REQUESTED", 0),
                                      Ev("QUOTE_RECEIVED", Val(q))>>
                   /\ tpc' = "build"
                   /\ UNCHANGED attempt
              ELSE /\ quote' = None
                   /\ log' = Append(log, Ev("QUOTE_REQUESTED", 0))
                   /\ tpc' = NextAttempt(attempt).tpc
                   /\ attempt' = NextAttempt(attempt).attempt
                   /\ UNCHANGED <<quotes_issued, executions>>
    /\ UNCHANGED <<side, swap_response, tx, result, raised, submitted, calls>>
    /\ UNCHANGED botVars
    /\ UNCHANGED auxVars

\* execute_swap(quote), lines 133-153: _get_swap_transaction(quote), the two
\* early returns, and the simulationError check, which logs and goes on
ExecuteSwapBuild ==
    /\ tpc = "build"
    /\ executions' = [executions EXCEPT ![Val(quote)] = @ + 1]
    /\ \E resp \in SwapResponses :
          IF resp # None /\ Val(resp).swapTransaction # None
          THEN /\ swap_response' =
                      Some([quote |-> Val(quote),
                            swapTransaction |-> Val(Val(resp).swapTransaction),
                            simulationError |-> Val(resp).simulationError])
               /\ log' = Append(log, Ev("TX_BUILT", Val(quote)))
               /\ tpc' = "decode"
               /\ UNCHANGED <<attempt, quote, tx, result, raised>>
          ELSE ExecuteSwapReturnsNone(<<>>)
    /\ UNCHANGED <<side, quotes_issued, submitted, calls>>
    /\ UNCHANGED botVars
    /\ UNCHANGED auxVars

\* execute_swap, lines 156-167: the bytes are decoded (an exception returns
\* None) and the first signature slot is compared with 64 zero bytes
ExecuteSwapDecode ==
    /\ tpc = "decode"
    /\ LET r == Val(swap_response)
       IN  IF r.swapTransaction.decodable
           THEN /\ tx' = Some([quote |-> r.quote,
                               first_sig |-> r.swapTransaction.first_sig,
                               simulationError |-> r.simulationError])
                /\ IF IsSigned(r.swapTransaction.first_sig)
                   THEN /\ log' = Append(log, Ev("ALREADY_SIGNED", r.quote))
                        /\ tpc' = "send_as_is"
                   ELSE /\ log' = Append(log, Ev("NEEDS_SIGNING", r.quote))
                        /\ tpc' = "sign"
                /\ UNCHANGED <<attempt, quote, swap_response, result, raised>>
           ELSE ExecuteSwapReturnsNone(<<>>)
    /\ UNCHANGED <<side, quotes_issued, executions, submitted, calls>>
    /\ UNCHANGED botVars
    /\ UNCHANGED auxVars

\* execute_swap, lines 169-175: the bytes Jupiter returned are sent as they
\* are; the transaction counts as SIGNED when it is handed to send_transaction
SendAsIs ==
    /\ tpc = "send_as_is"
    /\ \E rpc \in RpcOutcomes :
          LET t == Val(tx)
              sent == [quote |-> t.quote, first_sig |-> t.first_sig,
                       returned_first_sig |-> t.first_sig,
                       bytes |-> "original", wallet_signed |-> FALSE,
                       simulationError |-> t.simulationError]
              signature == SendTransaction(rpc, sent)
              signed == <<Ev("SIGNED", sent.quote)>>
          IN  /\ submitted' = submitted \cup Handed(rpc, sent)
              /\ IF signature # None
                 THEN /\ result' = signature
                      /\ log' = log \o signed \o
                                   (IF rpc = "signature"
                                    THEN <<Ev("SUBMITTED", sent.quote)>> ELSE <<>>)
                      /\ tpc' = ReturnResult(attempt).tpc
                      /\ attempt' = ReturnResult(attempt).attempt
                      /\ UNCHANGED <<quote, swap_response, tx, raised>>
                 ELSE ExecuteSwapReturnsNone(signed)
    /\ UNCHANGED <<side, quotes_issued, executions, calls>>
    /\ UNCHANGED botVars
    /\ UNCHANGED auxVars

\* execute_swap, lines 177-200: the wallet signs the message, the populated
\* transaction is sent; an exception while signing returns None
SignAndSend ==
    /\ tpc = "sign"
    /\ \E sign_ok \in BOOLEAN, rpc \in RpcOutcomes :
          LET t == Val(tx)
              sent == [quote |-> t.quote, first_sig |-> "wallet",
                       returned_first_sig |-> t.first_sig,
                       bytes |-> "populated", wallet_signed |-> TRUE,
                       simulationError |-> t.simulationError]
              signature == SendTransaction(rpc, sent)
              signed == <<Ev("SIGNED", sent.quote)>>
          IN  IF ~sign_ok
              THEN /\ ExecuteSwapReturnsNone(<<>>)
                   /\ UNCHANGED submitted
              ELSE /\ submitted' = submitted \cup Handed(rpc, sent)
                   /\ IF signature # None
                      THEN /\ result' = signature
                           /\ log' = log \o signed \o
                                        (IF rpc = "signature"
                                         THEN <<Ev("SUBMITTED", sent.quote)>> ELSE <<>>)
                           /\ tpc' = ReturnResult(attempt).tpc
                           /\ attempt' = ReturnResult(attempt).attempt
                           /\ UNCHANGED <<quote, swap_response, tx, raised>>
                      ELSE ExecuteSwapReturnsNone(signed)
    /\ UNCHANGED <<side, quotes_issued, executions, calls>>
    /\ UNCHANGED botVars
    /\ UNCHANGED auxVars

\* `return result` / `return None`: the call is over
Return ==
    /\ tpc = "done"
    /\ tpc' = "idle"
    /\ UNCHANGED <<side, attempt, quote, swap_response, tx, result, raised,
                   quotes_issued, executions, submitted, log, calls>>
    /\ UNCHANGED botVars
    /\ UNCHANGED auxVars

BotOff ==
    /\ pc = "off"
    /\ shutdown_requested = FALSE
    /\ position = FLAT
    /\ entry_price = None
    /\ current_price = None
    /\ usdc_balance = None
    /\ sol_balance = None
    /\ signal = HOLD
    /\ evaluated = {}
    /\ votes = [buy |-> FALSE, sell |-> FALSE]
    /\ file = {}
    /\ handed = None
    /\ open_buys = 0
    /\ fill = "none"
    /\ tick_fill = "none"
    /\ tick_order = "none"
    /\ steps = <<>>
    /\ tick_error = "none"
    /\ preflight = "none"
    /\ swap_request = None

InitTrader == BotOff /\ TraderIdle /\ AuxIdle

NextTrader ==
    \/ StartCall
    \/ GetQuoteStep
    \/ ExecuteSwapBuild
    \/ ExecuteSwapDecode
    \/ SendAsIs
    \/ SignAndSend
    \/ Return

SpecTrader == InitTrader /\ [][NextTrader]_vars

----------------------------------------------------------------------------
(* Claims about the trader, checked under SpecTrader *)

Count(name) == Cardinality({i \in 1..Len(log) : log[i].ev = name})

\* C6: every failed execution attempt is followed, while outer attempts
\* remain, by a request for a new quote and the failed quote is not executed
\* again; at most max_quote_retries + 1 outer attempts are made; when all of
\* them fail the call returns no signature and raises nothing.
C6_FreshQuoteAfterFailure ==
    /\ Count("QUOTE_REQUESTED") <= MaxQuoteRetries + 1
    /\ \A i \in 1..Len(log) :
          log[i].ev = "EXEC_FAILED" =>
             /\ executions[log[i].q] = 1
             /\ i < Len(log) => log[i + 1].ev = "QUOTE_REQUESTED"
             /\ (i = Len(log) /\ Count("QUOTE_REQUESTED") < MaxQuoteRetries + 1) =>
                   (tpc = "quote" /\ quote = None)
             /\ (i = Len(log) /\ Count("QUOTE_REQUESTED") = MaxQuoteRetries + 1) =>
                   (tpc \in {"done", "idle"} /\ result = None)
    /\ (tpc \in {"done", "idle"} /\ Count("SUBMITTED") = 0) => result = None
    /\ ~raised

\* C6 witness: all max_quote_retries + 1 attempts got a quote and failed in
\* execute_swap, and the call is over
C6_Witness ==
    /\ tpc = "done"
    /\ result = None
    /\ Count("EXEC_FAILED") = MaxQuoteRetries + 1

\* C7: when the swap-build response reports a simulation error the built
\* transaction is not submitted.
C7_SimulationErrorNotSubmitted ==
    \A t \in submitted : ~t.simulationError

\* C8: each quote get_quote returned is passed to execute_swap at most once,
\* over all calls, and after execute_swap failed for a quote nothing is done
\* with that quote again.
C8_QuoteConsumedAtMostOnce ==
    /\ \A q \in 1..Len(executions) : executions[q] <= 1
    /\ \A i \in 1..Len(log) :
          log[i].ev = "EXEC_FAILED" =>
             /\ \A j \in (i + 1)..Len(log) : log[j].q # log[i].q
             /\ quote # Some(log[i].q)
    /\ \A t \in submitted : executions[t.quote] = 1

\* C8 witness: in the second call, a quote failed and the next quote of the
\* same call is in execute_swap
C8_Witness ==
    /\ calls = 2
    /\ Count("EXEC_FAILED") >= 1
    /\ tpc = "decode"
    /\ executions[Val(quote)] = 1

\* C9: a returned transaction whose first signature is not the placeholder
\* is submitted unchanged and the wallet does not sign; one with the
\* placeholder is signed by the wallet and the populated transaction is
\* submitted; no transaction is submitted with the placeholder in front.
C9_SignOnlyPlaceholder ==
    \A t \in submitted :
       /\ t.first_sig # "placeholder"
       /\ t.returned_first_sig # "placeholder" =>
             (t.bytes = "original" /\ ~t.wallet_signed
                 /\ t.first_sig = t.returned_first_sig)
       /\ t.returned_first_sig = "placeholder" =>
             (t.bytes = "populated" /\ t.wallet_signed /\ t.first_sig = "wallet")

\* C9 witness: one call submitted a transaction as returned and another one
\* after signing it
C9_Witness ==
    \E t1 \in submitted, t2 \in submitted :
       /\ t1.returned_first_sig = "jupiter"
       /\ t2.returned_first_sig = "placeholder"

Rank(name) ==
    CASE name = "QUOTE_REQUESTED" -> 1
      [] name = "QUOTE_RECEIVED" -> 2
      [] name = "TX_BUILT" -> 3
      [] name \in {"ALREADY_SIGNED", "NEEDS_SIGNING"} -> 4
      [] name = "SIGNED" -> 5
      [] name = "SUBMITTED" -> 6
      [] OTHER -> 0

\* C10: within one outer attempt the protocol states come in the order
\* QUOTE_REQUESTED, QUOTE_RECEIVED, TX_BUILT, ALREADY_SIGNED or
\* NEEDS_SIGNING, SIGNED, SUBMITTED, each built from the quote of that
\* attempt, and the call returns a signature only after a submission
\* succeeded.
C10_ProtocolOrder ==
    /\ Len(log) > 0 => log[1].ev = "QUOTE_REQUESTED"
    /\ \A i \in 2..Len(log) :
          \/ /\ log[i].ev = "QUOTE_REQUESTED"
             /\ log[i - 1].ev \in {"QUOTE_REQUESTED", "EXEC_FAILED"}
          \/ /\ log[i].ev = "EXEC_FAILED"
             /\ Rank(log[i - 1].ev) \in 2..5
             /\ log[i].q = log[i - 1].q
          \/ /\ Rank(log[i].ev) = Rank(log[i - 1].ev) + 1
             /\ Rank(log[i].ev) >= 3 => log[i].q = log[i - 1].q
    /\ \A t \in submitted :
          \E i \in 1..Len(log) : log[i].ev = "QUOTE_RECEIVED" /\ log[i].q = t.quote
    /\ result # None =>
          /\ Len(log) > 0
          /\ log[Len(log)].ev = "SUBMITTED"
          /\ result = Some(log[Len(log)].q)

\* C10 witness: the second outer attempt of a call went through
\* NEEDS_SIGNING to SUBMITTED and the call returned its signature
C10_Witness ==
    /\ tpc = "done"
    /\ result # None
    /\ Count("QUOTE_REQUESTED") = 2
    /\ Count("NEEDS_SIGNING") = 1
    /\ Count("SUBMITTED") = 1

\* C35: within one buy_sol_with_usdc or sell_sol_for_usdc call at most one
\* submission returns a signature; the call returns that signature at once:
\* the submission is the last thing it did, and while the result stands no
\* quote is requested, no transaction is built and nothing is submitted.
C35_AtMostOneSignaturePerCall ==
    /\ [](Count("SUBMITTED") <= 1)
    /\ []((result # None) <=> (Count("SUBMITTED") = 1))
    /\ []((Count("SUBMITTED") = 1) =>
             /\ log[Len(log)].ev = "SUBMITTED"
             /\ result = Some(log[Len(log)].q)
             /\ tpc \in {"done", "idle"})
    /\ [][(result # None /\ result' # None) =>
             UNCHANGED <<result, log, submitted, quotes_issued, executions>>]_vars

\* a call returned a signature on its second attempt, after a first
\* submission that the RPC took without returning a signature
C35_Witness ==
    /\ tpc = "idle"
    /\ result # None
    /\ attempt = 1
    /\ Cardinality(submitted) = 2
    /\ Count("SUBMITTED") = 1

----------------------------------------------------------------------------
(* The retried network calls: JupiterTrader.get_quote (trader.py:88-118),  *)
(* JupiterTrader._get_swap_transaction (trader.py:230-256) and             *)
(* SolanaClient.send_transaction (client.py:173-211). The three share one  *)
(* loop; SpecRetry runs one call after another under a configuration       *)
(* chosen at construction.                                                 *)

RetriedFunctions == {"get_quote", "_get_swap_transaction", "send_transaction"}

\* retry_delay as configured (RETRY_DELAY_SECONDS, main.py:92): the default,
\* a value the doubling takes to the ceiling, the ceiling, a value above it
RetryDelays == {DefaultRetryDelay, 20, MaxDelay, MaxDelay + 1}

\* what one request can do: answer, answer with an empty value
\* (send_transaction, client.py:196-199), fail with the retried exception
\* class (RequestException / RPCException), fail with any other exception
AttemptOutcomes(f) ==
    IF f = "send_transaction"
    THEN {"ok", "no_value", "transient", "unexpected"}
    ELSE {"ok", "transient", "unexpected"}

\* the backoff without its ceiling
NextDelay_NoCeiling(d) == d * 2

\* delay = min(delay * 2, 60)
NextDelay(d) == Min(d * 2, MaxDelay)

\* __init__ of the trader / the client: max_retries and retry_delay are
\* stored as given
RetryConfigured ==
    /\ rstate = "idle"
    /\ fn = "get_quote"
    /\ max_retries \in 0..MaxRetriesBound
    /\ retry_delay \in RetryDelays
    /\ retries = 0
    /\ delay = retry_delay
    /\ requests_made = 0
    /\ sleeps = <<>>
    /\ returned = "pending"

RetryFrame ==
    UNCHANGED <<botVars, traderVars, confirmVars, storeVars, extraVars>>

\* the call starts: retries = 0, delay = self.retry_delay. send_transaction
\* returns None at once when the client is not connected (client.py:183-185)
RetryCall ==
    /\ rstate = "idle"
    /\ \E f \in RetriedFunctions, has_client \in BOOLEAN :
          /\ fn' = f
          /\ IF f = "send_transaction" /\ ~has_client
             THEN rstate' = "done" /\ returned' = "none"
             ELSE rstate' = "loop" /\ returned' = "pending"
    /\ retries' = 0
    /\ delay' = retry_delay
    /\ requests_made' = 0
    /\ sleeps' = <<>>
    /\ UNCHANGED <<max_retries, retry_delay>>
    /\ RetryFrame

\* one pass of `while retries < self.max_retries`: the request, and either a
\* return or the except branch with its sleep and the new delay
RetryAttempt ==
    /\ rstate = "loop"
    /\ retries < max_retries
    /\ requests_made' = requests_made + 1
    /\ \E outcome \in AttemptOutcomes(fn) :
          CASE outcome = "ok" ->
                  /\ returned' = "value"
                  /\ rstate' = "done"
                  /\ UNCHANGED <<retries, delay, sleeps>>
            [] outcome \in {"no_value", "unexpected"} ->
                  /\ returned' = "none"
                  /\ rstate' = "done"
                  /\ UNCHANGED <<retries, delay, sleeps>>
            [] outcome = "transient" ->
                  /\ retries' = retries + 1
                  /\ IF retries + 1 < max_retries
                     THEN /\ sleeps' = Append(sleeps, delay)
                          /\ delay' = NextDelay(delay)
                     ELSE UNCHANGED <<sleeps, delay>>
                  /\ UNCHANGED <<returned, rstate>>
    /\ UNCHANGED <<fn, max_retries, retry_delay>>
    /\ RetryFrame

\* the loop condition is false: the error is logged and None is returned
RetryExhausted ==
    /\ rstate = "loop"
    /\ retries >= max_retries
    /\ returned' = "none"
    /\ rstate' = "done"
    /\ UNCHANGED <<fn, max_retries, retry_delay, retries, delay,
                   requests_made, sleeps>>
    /\ RetryFrame

\* the caller has the result; the next call can start
RetryReturn ==
    /\ rstate = "done"
    /\ rstate' = "idle"
    /\ UNCHANGED <<fn, max_retries, retry_delay, retries, delay,
                   requests_made, sleeps, returned>>
    /\ RetryFrame

NextRetry ==
    \/ RetryCall
    \/ RetryAttempt
    \/ RetryExhausted
    \/ RetryReturn

InitRetry ==
    /\ BotOff /\ TraderIdle /\ RetryConfigured /\ ConfirmIdle /\ StoreIdle
    /\ ExtraIdle

SpecRetry == InitRetry /\ [][NextRetry]_vars

----------------------------------------------------------------------------
(* Claims about the retried calls, checked under SpecRetry *)

\* the attempts are bounded, the waits lie between attempts only, and a call
\* whose every attempt failed returns None; it never raises
RetryBoundedAndQuiet ==
    /\ requests_made <= max_retries
    /\ retries = max_retries /\ max_retries > 0 =>
          requests_made = max_retries /\ Len(sleeps) = max_retries - 1
    /\ Len(sleeps) <= retries
    /\ rstate = "done" /\ retries >= max_retries => returned = "none"
    /\ returned # "raise"

----------------------------------------------------------------------------
(* SolanaClient.confirm_transaction, src/src/blockchain/client.py:213-270. *)
(* SpecConfirm runs one call after another; the signature is the one of a  *)
(* submitted transaction, so Signature.from_string (client.py:235) accepts *)
(* it. Time is counted in seconds.                                         *)

\* poll_interval as passed by the caller; the default is 1.0
PollIntervals == {1, 2}

\* seconds one get_signature_statuses round trip can take
PollDurations == {0, 1}

\* status.confirmation_status: absent, or one of the three levels of
\* TransactionConfirmationStatus
Levels == {"none", "Processed", "Confirmed", "Finalized"}

\* what one get_signature_statuses call can show: an exception, an empty
\* response.value, a None entry (signature unknown), or a status with a
\* confirmation level and with or without an execution error
Observations ==
    {[kind |-> k, level |-> "none", err |-> FALSE] :
        k \in {"exception", "empty", "null"}}
    \cup {[kind |-> "status", level |-> l, err |-> e] :
            l \in Levels, e \in BOOLEAN}

\* the level test that also takes "Processed"
IsConfirmedLevel_AcceptProcessed(level) == level # "none"

\* `if status.confirmation_status:` and `"Confirmed" in confirmation_level
\* or "Finalized" in confirmation_level`, where confirmation_level is
\* str(status.confirmation_status), "TransactionConfirmationStatus.<level>"
IsConfirmedLevel(level) == level \in {"Confirmed", "Finalized"}

\* a status that ends the wait: confirmed/finalized, or an execution error
IsTerminal(obs) ==
    obs.kind = "status" /\ (IsConfirmedLevel(obs.level) \/ obs.err)

\* the body of the try block, in the order of the code: the confirmation
\* level is looked at first, status.err after it, otherwise the loop sleeps
PollResult(obs) ==
    IF obs.kind = "status" /\ IsConfirmedLevel(obs.level) THEN "true"
    ELSE IF obs.kind = "status" /\ obs.err THEN "false"
    ELSE "sleep"

\* the loop condition evaluated as always true
BudgetLeft_Always(e, max_wait) == TRUE

\* while (time.time() - start_time) < max_wait_seconds
BudgetLeft(e, max_wait) == e < max_wait

ConfirmFrame ==
    UNCHANGED <<botVars, traderVars, retryVars, storeVars, extraVars>>

\* the call starts: False at once without a client, else start_time is taken
ConfirmCall ==
    /\ cstate = "idle"
    /\ \E has_client \in BOOLEAN, mw \in 0..MaxWaitSeconds,
          pi \in PollIntervals :
          /\ max_wait_seconds' = mw
          /\ poll_interval' = pi
          /\ IF has_client
             THEN cstate' = "loop" /\ confirmed' = "pending"
             ELSE cstate' = "done" /\ confirmed' = "false"
    /\ elapsed' = 0
    /\ polls' = 0
    /\ failed_polls' = 0
    /\ poll_started_at' = 0
    /\ observed' = NoObservation
    /\ terminal_seen' = FALSE
    /\ ConfirmFrame

\* one pass of the while loop: the status query and what the body makes of it
ConfirmPoll ==
    /\ cstate = "loop"
    /\ BudgetLeft(elapsed, max_wait_seconds)
    /\ poll_started_at' = elapsed
    /\ polls' = polls + 1
    /\ \E obs \in Observations, d \in PollDurations :
          /\ observed' = obs
          /\ terminal_seen' = (terminal_seen \/ IsTerminal(obs))
          /\ failed_polls' = IF obs.kind = "status" THEN failed_polls
                             ELSE failed_polls + 1
          /\ IF PollResult(obs) = "sleep"
             THEN /\ elapsed' = elapsed + d + poll_interval
                  /\ UNCHANGED <<cstate, confirmed>>
             ELSE /\ elapsed' = elapsed + d
                  /\ cstate' = "done"
                  /\ confirmed' = PollResult(obs)
    /\ UNCHANGED <<max_wait_seconds, poll_interval>>
    /\ ConfirmFrame

\* the loop condition is false: the timeout is logged, False is returned
ConfirmTimeout ==
    /\ cstate = "loop"
    /\ ~BudgetLeft(elapsed, max_wait_seconds)
    /\ cstate' = "done"
    /\ confirmed' = "false"
    /\ UNCHANGED <<max_wait_seconds, poll_interval, elapsed, polls,
                   failed_polls, poll_started_at, observed, terminal_seen>>
    /\ ConfirmFrame

\* the caller has the answer; the next call can start
ConfirmReturn ==
    /\ cstate = "done"
    /\ cstate' = "idle"
    /\ UNCHANGED <<max_wait_seconds, poll_interval, elapsed, polls,
                   failed_polls, poll_started_at, observed, terminal_seen,
                   confirmed>>
    /\ ConfirmFrame

InitConfirm == BotOff /\ TraderIdle /\ AuxIdle

NextConfirm ==
    \/ ConfirmCall
    \/ ConfirmPoll
    \/ ConfirmTimeout
    \/ ConfirmReturn

SpecConfirm == InitConfirm /\ [][NextConfirm]_vars

----------------------------------------------------------------------------
(* Claims about confirm_transaction, checked under SpecConfirm *)

C14_ErrorReturnsFalse ==
    (observed.kind = "status" /\ observed.err) =>
        cstate # "loop" /\ confirmed = "false"

\* C15: if no poll observes a terminal status within the maximum wait,
\* including when every status query fails or returns nothing, no poll starts
\* once the wait budget is used up (so the number of polls is bounded by the
\* budget), and the call returns false without raising.
C15_TimeoutReturnsFalse ==
    /\ polls > 0 =>
          /\ poll_started_at < max_wait_seconds
          /\ (polls - 1) * poll_interval <= poll_started_at
    /\ (cstate = "done" /\ ~terminal_seen) => confirmed = "false"
    /\ (cstate = "done" /\ ~terminal_seen /\ polls > 0) =>
          elapsed >= max_wait_seconds
    /\ confirmed # "raise"

\* every status query of the call failed or returned nothing, the budget of
\* three seconds was used up by three polls, and false was returned
C15_Witness ==
    /\ cstate = "done"
    /\ max_wait_seconds = 3
    /\ polls = 3
    /\ failed_polls = 3
    /\ ~terminal_seen
    /\ confirmed = "false"

----------------------------------------------------------------------------
(* StateManager.save_state and load_state step by step, with the state     *)
(* directory, src/src/utils/state.py:44-108. SpecStore runs saves and      *)
(* loads one after another on a directory whose canonical file may have    *)
(* been damaged from outside. Python values are written as their literals, *)
(* JSON texts as they stand in the file.                                   *)

\* strategy_state dicts a strategy can hand over (base.py:46, Dict[str, Any]):
\* empty (what BaseStrategy leaves it as), an int key, a tuple value, a
\* non-ASCII string, a set
PyStrategyStates ==
    {"{}", "{14: 1}", "{'w': (1, 2)}", "{'n': 'NON-ASCII'}", "{'s': {1, 2}}"}

\* those of them built from what JSON has: str keys, and strings, numbers,
\* lists, dicts and None as values
JsonNative == {"{}", "{'n': 'NON-ASCII'}"}

\* the dicts save_state is called with: what get_state() builds (base.py:
\* 153-164) of a flat strategy, or of a long one with its entry price
StateInputs ==
    {[position |-> FLAT, entry_price |-> None, strategy_state |-> ss] :
        ss \in PyStrategyStates}
    \cup {[position |-> LONG, entry_price |-> Some(x), strategy_state |-> ss] :
            x \in Prices, ss \in PyStrategyStates}

\* json.dump raises TypeError on a value JSON has no form for
Serializable(v) == v # "{'s': {1, 2}}"

\* json.dump(..., ensure_ascii=False): keys become strings, tuples arrays
JsonDumps(v) ==
    CASE v = "{}" -> "{}"
      [] v = "{14: 1}" -> "{\"14\": 1}"
      [] v = "{'w': (1, 2)}" -> "{\"w\": [1, 2]}"
      [] v = "{'n': 'NON-ASCII'}" -> "{\"n\": \"NON-ASCII\"}"
      [] OTHER -> v

\* json.load: objects become dicts with str keys, arrays lists
JsonLoads(t) ==
    CASE t = "{}" -> "{}"
      [] t = "{\"14\": 1}" -> "{'14': 1}"
      [] t = "{\"w\": [1, 2]}" -> "{'w': [1, 2]}"
      [] t = "{\"n\": \"NON-ASCII\"}" -> "{'n': 'NON-ASCII'}"
      [] OTHER -> t

\* the document written without the entry price
Document_NoEntryPrice(state) ==
    [kind |-> "complete",
     doc |-> {[position |-> state.position,
               entry_price |-> None,
               strategy_state |-> JsonDumps(state.strategy_state),
               last_updated |-> state.last_updated]}]

\* the complete JSON document of a stamped state, written as UTF-8.
\* entry_price: repr of a float parses back to the same float, None is null
Document(state) ==
    [kind |-> "complete",
     doc |-> {[position |-> state.position,
               entry_price |-> state.entry_price,
               strategy_state |-> JsonDumps(state.strategy_state),
               last_updated |-> state.last_updated]}]

\* a strict prefix of the bytes of a document, the empty file included
Partial(c) == [kind |-> "partial", doc |-> c.doc]

\* files that did not come from save_state (which writes UTF-8): text that
\* is no JSON, bytes that are no UTF-8, JSON that is no object ([] or null)
Damaged ==
    {[kind |-> k, doc |-> {}] :
        k \in {"garbage_text", "garbage_bytes", "non_object"}}

\* open(state_file, "r", encoding="utf-8") can decode the bytes
DecodesAsUtf8(c) == c.kind # "garbage_bytes"

\* load_state(): the default state when the file does not exist, when open
\* raises IOError and when json.load raises JSONDecodeError; the parsed dict
\* otherwise. UnicodeDecodeError (from f.read() inside json.load) and the
\* AttributeError of _sanitize_state_for_log on a non-dict are not caught.
LoadStateFile(c, readable, now) ==
    IF c.kind = "absent" \/ ~readable
    THEN [raised |-> FALSE, state |-> Some(DefaultState(now))]
    ELSE IF ~DecodesAsUtf8(c)
    THEN [raised |-> TRUE, state |-> None]
    ELSE IF c.kind \in {"garbage_text", "partial"}
    THEN [raised |-> FALSE, state |-> Some(DefaultState(now))]
    ELSE IF c.kind = "non_object"
    THEN [raised |-> TRUE, state |-> None]
    ELSE LET d == Val(c.doc)
         IN  [raised |-> FALSE,
              state |-> Some([position |-> d.position,
                              entry_price |-> d.entry_price,
                              strategy_state |-> JsonLoads(d.strategy_state),
                              last_updated |-> d.last_updated])]

StoreFrame ==
    UNCHANGED <<botVars, traderVars, retryVars, confirmVars, extraVars>>

\* save_state(state): self.state = state; last_updated is stamped
SaveBegin ==
    /\ spc = "idle"
    /\ \E state \in StateInputs, now \in Times :
          /\ saved_input' = Some(state)
          /\ mem' = Some([position |-> state.position,
                          entry_price |-> state.entry_price,
                          strategy_state |-> state.strategy_state,
                          last_updated |-> now])
    /\ before' = sfile
    /\ save_result' = "pending"
    /\ loaded' = None
    /\ loaded_from' = Absent
    /\ load_raised' = FALSE
    /\ spc' = "mkstemp"
    /\ UNCHANGED <<sfile, tmp>>
    /\ StoreFrame

\* tempfile.mkstemp(dir=self.state_dir, ...): an empty temporary file, or an
\* OSError that the outer except turns into False
Mkstemp ==
    /\ spc = "mkstemp"
    /\ \E ok \in BOOLEAN :
          IF ok
          THEN /\ tmp' = [kind |-> "partial", doc |-> {}]
               /\ spc' = "dump"
               /\ UNCHANGED save_result
          ELSE /\ spc' = "done"
               /\ save_result' = "false"
               /\ UNCHANGED tmp
    /\ UNCHANGED <<mem, sfile, before, saved_input, loaded,
                   loaded_from, load_raised>>
    /\ StoreFrame

\* os.fdopen(temp_fd, "w", encoding="utf-8") and json.dump into the
\* temporary file. An exception on the way
\* unlinks the temporary file (a failing unlink is ignored) and is raised
\* again: an OSError becomes False, a TypeError leaves save_state
Dump ==
    /\ spc = "dump"
    /\ \E outcome \in {"written", "oserror", "typeerror"}, unlinked \in BOOLEAN :
          /\ outcome = "written" => Serializable(Val(mem).strategy_state)
          /\ outcome = "typeerror" => ~Serializable(Val(mem).strategy_state)
          /\ IF outcome = "written"
             THEN /\ tmp' = Document(Val(mem))
                  /\ spc' = "move"
                  /\ UNCHANGED save_result
             ELSE /\ tmp' = IF unlinked THEN Absent
                            ELSE [kind |-> "partial", doc |-> {}]
                  /\ spc' = "done"
                  /\ save_result' = IF outcome = "oserror" THEN "false"
                                    ELSE "raise"
    /\ UNCHANGED <<mem, sfile, before, saved_input, loaded,
                   loaded_from, load_raised>>
    /\ StoreFrame

\* shutil.move(temp_path, self.state_file): os.rename puts the temporary file
\* in the place of the canonical one; when os.rename raises OSError (as it
\* does on Windows when the destination exists) shutil.move copies instead,
\* and the copy starts by opening the canonical file for writing
Move ==
    /\ spc = "move"
    /\ \E outcome \in {"renamed", "copy_opened", "copy_refused"},
          unlinked \in BOOLEAN :
          CASE outcome = "renamed" ->
                  /\ sfile' = tmp
                  /\ tmp' = Absent
                  /\ spc' = "done"
                  /\ save_result' = "true"
            [] outcome = "copy_opened" ->
                  /\ sfile' = Partial(tmp)
                  /\ spc' = "copy"
                  /\ UNCHANGED <<tmp, save_result>>
            [] outcome = "copy_refused" ->
                  /\ tmp' = IF unlinked THEN Absent ELSE tmp
                  /\ spc' = "done"
                  /\ save_result' = "false"
                  /\ UNCHANGED sfile
    /\ UNCHANGED <<mem, before, saved_input, loaded,
                   loaded_from, load_raised>>
    /\ StoreFrame

\* shutil.move's copy: the bytes reach the canonical file and the temporary
\* file is unlinked, or the copy fails on the way with an OSError
Copy ==
    /\ spc = "copy"
    /\ \E ok \in BOOLEAN, unlinked \in BOOLEAN :
          IF ok
          THEN /\ sfile' = tmp
               /\ tmp' = Absent
               /\ save_result' = "true"
          ELSE /\ tmp' = IF unlinked THEN Absent ELSE tmp
               /\ save_result' = "false"
               /\ UNCHANGED sfile
    /\ spc' = "done"
    /\ UNCHANGED <<mem, before, saved_input, loaded,
                   loaded_from, load_raised>>
    /\ StoreFrame

\* save_state has returned (or raised); the next call can start. A
\* temporary file that could not be unlinked stays behind under its own
\* name and is not looked at again.
SaveReturn ==
    /\ spc = "done"
    /\ spc' = "idle"
    /\ before' = Absent
    /\ tmp' = Absent
    /\ UNCHANGED <<mem, sfile, saved_input,
                   save_result, loaded, loaded_from, load_raised>>
    /\ StoreFrame

\* load_state(), by this or by a new StateManager on the same directory
Load ==
    /\ spc = "idle"
    /\ \E readable \in BOOLEAN, now \in Times :
          LET r == LoadStateFile(sfile, readable, now)
          IN  /\ load_raised' = r.raised
              /\ loaded' = r.state
              /\ loaded_from' = IF readable THEN sfile
                                ELSE [kind |-> "unreadable", doc |-> {}]
              /\ mem' = IF r.raised
                        THEN IF sfile.kind = "non_object"
                             THEN Some([kind |-> "non_object"]) ELSE mem
                        ELSE r.state
    /\ UNCHANGED <<spc, sfile, tmp, before, saved_input,
                   save_result>>
    /\ StoreFrame

\* the state directory as the StateManager finds it: no canonical file, or
\* one damaged from outside
StoreFound ==
    /\ spc = "idle"
    /\ mem = None
    /\ sfile \in {Absent} \cup Damaged
    /\ tmp = Absent
    /\ before = Absent
    /\ saved_input = None
    /\ save_result = "pending"
    /\ loaded = None
    /\ loaded_from = Absent
    /\ load_raised = FALSE

InitStore ==
    /\ BotOff /\ TraderIdle /\ RetryIdle /\ ConfirmIdle /\ StoreFound
    /\ ExtraIdle

NextStore ==
    \/ SaveBegin
    \/ Mkstemp
    \/ Dump
    \/ Move
    \/ Copy
    \/ SaveReturn
    \/ Load

SpecStore == InitStore /\ [][NextStore]_vars

----------------------------------------------------------------------------
(* Claims about the StateManager, checked under SpecStore *)

\* C16: save_state writes the new state to a temporary file in the state
\* directory and then replaces the canonical file in one step: at every
\* instant of a save, a save that fails midway included, the canonical file
\* holds either the complete content it had before the save or the complete
\* new state, never a partial one.
C16_ReaderSeesOldOrNew ==
    spc # "idle" =>
        \/ sfile = before
        \/ sfile = Document(Val(mem))

\* C17: load_state never raises; when the state file is absent or cannot be
\* parsed it returns the default state, position flat and no entry price.
C17_LoadNeverRaises ==
    /\ ~load_raised
    /\ (loaded # None /\ loaded_from.kind \in
           {"absent", "unreadable", "garbage_text", "garbage_bytes", "partial"})
          => /\ Val(loaded).position = FLAT
             /\ Val(loaded).entry_price = None

\* a load_state that read the file has followed a successful save_state
LoadedAfterSave ==
    /\ spc = "idle"
    /\ save_result = "true"
    /\ loaded # None \/ load_raised
    /\ loaded_from.kind # "unreadable"

\* the state returned equals the input on position, entry_price and
\* strategy_state
RoundTripEqual ==
    /\ ~load_raised
    /\ Val(loaded).position = Val(saved_input).position
    /\ Val(loaded).entry_price = Val(saved_input).entry_price
    /\ Val(loaded).strategy_state = Val(saved_input).strategy_state

----------------------------------------------------------------------------
(* CompositeStrategy, src/src/strategies/composite.py, on top of           *)
(* BaseStrategy, checked under SpecComposite                               *)
(*                                                                         *)
(* Weights are decimal numbers counted in ten-thousandths (0.5 is 5000).   *)
(* For every weight list of the model the floating-point sums of the code  *)
(* fall on the same side of its two comparisons as the exact sums do.      *)

\* a composite is built from 0..MaxSubs sub-strategies
MaxSubs == 3

\* composite.py:61, the sum the weights must have (1.0) and the tolerance
\* (0.001)
WeightOne == 10000
WeightTolerance == 10
\* composite.py:116 and :155, the threshold 0.5 of the weighted score
WeightedThreshold == 5000

\* CompositeMode
Modes == {"all", "any", "majority", "weighted"}

\* the weights a caller may pass: 0.1, 0.25, 0.498, 0.4996, 0.5, 0.9, 1.0
Weights == {1000, 2500, 4980, 4996, 5000, 9000, 10000}

\* the prices of the ticks of a composite
FillPrices == {1, 2}

\* the `weights` argument: None or a list of any length; a mode other than
\* WEIGHTED ignores it
WeightArgs(m) ==
    IF m = "weighted"
    THEN {None} \cup {Some(w) : w \in UNION {[1..k -> Weights] : k \in 0..MaxSubs}}
    ELSE {None, Some(<<5000, 4000>>)}

\* Python's sum() over a list
RECURSIVE SumSeq(_)
SumSeq(q) == IF q = <<>> THEN 0 ELSE q[1] + SumSeq(Tail(q))

Abs(x) == IF x < 0 THEN 0 - x ELSE x

\* __init__ without the test of the weight sum
InitRaises_NoSumCheck(subs, m, w) ==
    \/ Len(subs) = 0
    \/ /\ m = "weighted"
       /\ \/ w = None
          \/ Val(w) = <<>>
          \/ Len(Val(w)) # Len(subs)

\* __init__: a ValueError is raised when `not strategies`, or in WEIGHTED mode
\* when `not weights or len(weights) != len(strategies)` or
\* `abs(sum(weights) - 1.0) > 0.001`
InitRaises(subs, m, w) ==
    \/ Len(subs) = 0
    \/ /\ m = "weighted"
       /\ \/ w = None
          \/ Val(w) = <<>>
          \/ Len(Val(w)) # Len(subs)
          \/ Abs(SumSeq(Val(w)) - WeightOne) > WeightTolerance

\* all(signals) taken for any(signals)
AllOf_Any(sig) == \E i \in 1..Len(sig) : sig[i]

\* all(signals)
AllOf(sig) == \A i \in 1..Len(sig) : sig[i]

\* any(signals)
AnyOf(sig) == \E i \in 1..Len(sig) : sig[i]

\* yes_votes = sum(signals)
YesVotes(sig) == Cardinality({i \in 1..Len(sig) : sig[i]})

\* a tie counted as a majority
Majority_Inclusive(sig) == 2 * YesVotes(sig) >= Len(sig)

\* yes_votes > len(signals) / 2, `/` being the true division
Majority(sig) == 2 * YesVotes(sig) > Len(sig)

\* score = sum(weight if signal else 0 for signal, weight in zip(signals,
\* self.weights)); zip stops at the end of the shorter list
RECURSIVE Score(_, _)
Score(sig, w) ==
    IF sig = <<>> \/ w = <<>> THEN 0
    ELSE (IF sig[1] THEN w[1] ELSE 0) + Score(Tail(sig), Tail(w))

\* the threshold taken as inclusive
Exceeds_Inclusive(score) == score >= WeightedThreshold

\* score > 0.5
Exceeds(score) == score > WeightedThreshold

\* should_buy / should_sell of the composite, given the answers of the
\* sub-strategies
Combine(m, w, sig) ==
    CASE m = "all" -> AllOf(sig)
      [] m = "any" -> AnyOf(sig)
      [] m = "majority" -> Majority(sig)
      [] m = "weighted" -> Exceeds(Score(sig, Val(w)))
      [] OTHER -> FALSE

\* a call made on a strategy: `on` is 0 for the composite and i for its i-th
\* sub-strategy, `price` the argument
Call(i, op, price) == [on |-> i, op |-> op, price |-> price]

\* the calls of one method on the composite that it forwards to every
\* sub-strategy in list order
Forwarded(n, op, price) ==
    <<Call(0, op, price)>> \o [i \in 1..n |-> Call(i, op, price)]

\* update() that forwards to no sub-strategy
CompositeUpdate_NotForwarded(n, price) == <<Call(0, "update", price)>>

\* CompositeStrategy.update(current_price)
CompositeUpdate(n, price) == Forwarded(n, "update", price)

\* on_buy that reaches the first sub-strategy only
ForwardOnBuy_FirstOnly(subs, price) ==
    [i \in 1..Len(subs) |-> IF i = 1 THEN OnBuy(price) ELSE subs[i]]

\* on_buy(entry_price): `for strategy in self.strategies:
\* strategy.on_buy(entry_price)`
ForwardOnBuy(subs, price) == [i \in 1..Len(subs) |-> OnBuy(price)]

\* on_sell(exit_price), likewise
ForwardOnSell(subs, price) == [i \in 1..Len(subs) |-> OnSell(price)]

\* what a saved strategy state may hold
SavedStates == {[position |-> FLAT, entry_price |-> None],
                [position |-> LONG, entry_price |-> Some(1)]}

\* load_state that leaves the sub-strategies as they were constructed
LoadSubStates_NoSubs(subs, strategy_states) == subs

\* `for strategy, strategy_state in zip(self.strategies, strategy_states):
\* strategy.load_state(strategy_state)`: zip stops at the shorter list
LoadSubStates(subs, strategy_states) ==
    [i \in 1..Len(subs) |->
        IF i <= Len(strategy_states)
        THEN StrategyLoadState(subs[i].position, subs[i].entry_price,
                               strategy_states[i])
        ELSE subs[i]]

\* CompositeStrategy.get_state()
CompositeGetState(pos, ep, subs) ==
    [position |-> pos, entry_price |-> ep,
     strategy_states |->
         [i \in 1..Len(subs) |-> GetState(subs[i].position, subs[i].entry_price)]]

\* json.dump of a price: None is null, a float its repr
JsonPrice(ep) ==
    IF ep = None THEN "null"
    ELSE CASE Val(ep) = 1 -> "1.0" [] Val(ep) = 2 -> "2.0" [] OTHER -> "NaN"

\* json.load of what stands for a price
PyPrice(t) ==
    IF t = "null" THEN None
    ELSE CASE t = "1.0" -> Some(1) [] t = "2.0" -> Some(2) [] OTHER -> Some(0)

\* json.dump(self.state, f) of a composite's state in save_state: the
\* position is a str, strategy_states an array of objects
CompositeDocument(state) ==
    [position |-> state.position,
     entry_price |-> JsonPrice(state.entry_price),
     strategy_states |->
         [i \in 1..Len(state.strategy_states) |->
             [position |-> state.strategy_states[i].position,
              entry_price |-> JsonPrice(state.strategy_states[i].entry_price),
              strategy_state |->
                  JsonDumps(state.strategy_states[i].strategy_state)]]]

\* json.load(f) of that document in load_state
ParseCompositeDocument(doc) ==
    [position |-> doc.position,
     entry_price |-> PyPrice(doc.entry_price),
     strategy_states |->
         [i \in 1..Len(doc.strategy_states) |->
             [position |-> doc.strategy_states[i].position,
              entry_price |-> PyPrice(doc.strategy_states[i].entry_price),
              strategy_state |->
                  JsonLoads(doc.strategy_states[i].strategy_state)]]]

CompositeFrame ==
    UNCHANGED <<botVars, traderVars, retryVars, confirmVars, storeVars,
                candleVars, moreVars>>

\* CompositeStrategy(config, strategies, mode, weights): the constructor
\* either raises ValueError or leaves a composite behind
CompositeInit ==
    /\ cpc = "new"
    /\ cpc' = IF InitRaises(strategies, mode, weights)
              THEN "config_error" ELSE "built"
    /\ UNCHANGED <<strategies, mode, weights, cposition, centry_price, cprice,
                   signals, verdict, clog, cfill>>
    /\ UNCHANGED saved
    /\ CompositeFrame

\* load_state(state): BaseStrategy.load_state for the composite, then each
\* sub-strategy loads its entry of state['strategy_states'] as far as
\* zip(self.strategies, strategy_states) pairs them
CompositeLoadState ==
    /\ cpc = "built"
    /\ \E own \in SavedStates, sub \in SavedStates,
          k \in 0..Len(strategies) :
          LET c == StrategyLoadState(cposition, centry_price, own)
          IN  /\ cposition' = c.position
              /\ centry_price' = c.entry_price
              /\ strategies' = LoadSubStates(strategies, [i \in 1..k |-> sub])
    /\ cpc' = "ready"
    /\ UNCHANGED <<mode, weights, cprice, signals, verdict, clog, cfill>>
    /\ UNCHANGED saved
    /\ CompositeFrame

\* get_signal(current_price) on the composite: update(), then should_buy
\* while FLAT or should_sell while LONG, each asking every sub-strategy
GetSignalCall ==
    /\ cpc \in {"built", "ready"}
    /\ \E price \in FillPrices, sig \in [1..Len(strategies) -> BOOLEAN] :
          LET n == Len(strategies)
              asked == IF cposition = FLAT THEN "should_buy" ELSE "should_sell"
              r == Combine(mode, weights, sig)
          IN  /\ cprice' = price
              /\ signals' = sig
              /\ clog' = CompositeUpdate(n, price) \o Forwarded(n, asked, price)
              /\ verdict' = GetSignal(cposition, r, r).signal
    /\ cfill' = "none"
    /\ cpc' = "decided"
    /\ UNCHANGED <<strategies, mode, weights, cposition, centry_price>>
    /\ UNCHANGED saved
    /\ CompositeFrame

\* _get_strategy_signal(current_price), the candle path (main.py:562-582),
\* for a strategy that offers should_buy_candles: update(), then the candle
\* predicate of the position
CandleSignalCall ==
    /\ cpc \in {"built", "ready"}
    /\ \E price \in FillPrices, answer \in BOOLEAN :
          LET n == Len(strategies)
              asked == IF cposition = FLAT THEN "should_buy_candles"
                                           ELSE "should_sell_candles"
          IN  /\ cprice' = price
              /\ clog' = CompositeUpdate(n, price)
                             \o <<Call(0, asked, price)>>
              /\ verdict' =
                     GetStrategySignalCandles(cposition, answer, answer).signal
    /\ signals' = <<>>
    /\ cfill' = "none"
    /\ cpc' = "decided"
    /\ UNCHANGED <<strategies, mode, weights, cposition, centry_price>>
    /\ UNCHANGED saved
    /\ CompositeFrame

\* the BUY was filled: on_buy(entry_price) of the composite
CompositeOnBuy ==
    /\ cpc = "decided"
    /\ verdict = BUY
    /\ LET s == OnBuy(cprice)
       IN  /\ cposition' = s.position
           /\ centry_price' = s.entry_price
    /\ strategies' = ForwardOnBuy(strategies, cprice)
    /\ clog' = Forwarded(Len(strategies), "on_buy", cprice)
    /\ cfill' = BUY
    /\ cpc' = "ready"
    /\ UNCHANGED <<mode, weights, cprice, signals, verdict>>
    /\ UNCHANGED saved
    /\ CompositeFrame

\* the SELL was filled: on_sell(exit_price) of the composite
CompositeOnSell ==
    /\ cpc = "decided"
    /\ verdict = SELL
    /\ LET s == OnSell(cprice)
       IN  /\ cposition' = s.position
           /\ centry_price' = s.entry_price
    /\ strategies' = ForwardOnSell(strategies, cprice)
    /\ clog' = Forwarded(Len(strategies), "on_sell", cprice)
    /\ cfill' = SELL
    /\ cpc' = "ready"
    /\ UNCHANGED <<mode, weights, cprice, signals, verdict>>
    /\ UNCHANGED saved
    /\ CompositeFrame

\* HOLD, or an order that was not filled: no strategy is told anything
NoFill ==
    /\ cpc = "decided"
    /\ cpc' = "ready"
    /\ UNCHANGED <<strategies, mode, weights, cposition, centry_price, cprice,
                   signals, verdict, clog, cfill>>
    /\ UNCHANGED saved
    /\ CompositeFrame

\* a restart: _save_state() writes get_state() to the state file, the
\* process ends, and initialize() builds the composite anew from the same
\* configuration and has it load what load_state() reads from the file
CompositeRestart ==
    /\ cpc \in {"built", "ready"}
    /\ LET doc == CompositeDocument(
                      CompositeGetState(cposition, centry_price, strategies))
           state == ParseCompositeDocument(doc)
           fresh == [i \in 1..Len(strategies) |->
                        [position |-> FLAT, entry_price |-> None]]
           c == StrategyLoadState(FLAT, None, state)
       IN  /\ saved' = Some(doc)
           /\ cposition' = c.position
           /\ centry_price' = c.entry_price
           /\ strategies' = LoadSubStates(fresh, state.strategy_states)
    /\ cpc' = "ready"
    /\ signals' = <<>>
    /\ verdict' = HOLD
    /\ clog' = <<>>
    /\ cfill' = "none"
    /\ UNCHANGED <<mode, weights, cprice>>
    /\ CompositeFrame

\* the arguments of the constructor: fresh sub-strategies (FLAT, no entry
\* price), a mode, weights
CompositeArgs ==
    /\ cpc = "new"
    /\ \E n \in 0..MaxSubs :
          strategies = [i \in 1..n |-> [position |-> FLAT, entry_price |-> None]]
    /\ mode \in Modes
    /\ weights \in WeightArgs(mode)
    /\ cposition = FLAT
    /\ centry_price = None
    /\ cprice = 1
    /\ signals = <<>>
    /\ verdict = HOLD
    /\ clog = <<>>
    /\ cfill = "none"
    /\ saved = None

InitComposite ==
    /\ BotOff /\ TraderIdle /\ RetryIdle /\ ConfirmIdle /\ StoreIdle
    /\ CompositeArgs /\ CandlesIdle /\ MoreIdle

NextComposite ==
    \/ CompositeInit
    \/ CompositeLoadState
    \/ GetSignalCall
    \/ CandleSignalCall
    \/ CompositeOnBuy
    \/ CompositeOnSell
    \/ NoFill
    \/ CompositeRestart

SpecComposite == InitComposite /\ [][NextComposite]_vars

\* the predicates a signal request may evaluate
DecisionOps == {"should_buy", "should_sell", "should_buy_candles",
                "should_sell_candles"}

\* C24: on every tick in which a decision is requested, update(price) is
\* invoked before should_buy/should_sell is evaluated, whether the position
\* is FLAT or LONG (price path and candle path), and a composite forwards
\* that update to every sub-strategy: every predicate call on a strategy
\* comes after an update call on the same strategy with the tick's price.
C24_UpdateBeforeDecision ==
    cpc = "decided" =>
        /\ \E j \in 1..Len(clog) : clog[j].op \in DecisionOps
        /\ \A j \in 1..Len(clog) :
              clog[j].op \in DecisionOps =>
                  \E k \in 1..(j - 1) :
                      clog[k] = Call(clog[j].on, "update", cprice)
        /\ \A i \in 0..Len(strategies) :
              \E k \in 1..Len(clog) : clog[k] = Call(i, "update", cprice)

\* a LONG composite of two sub-strategies was asked and answered SELL
C24_Witness ==
    /\ cpc = "decided"
    /\ cposition = LONG
    /\ Len(strategies) = 2
    /\ verdict = SELL
    /\ signals # <<>>

\* the indices of the sub-strategies that voted true
Yes == {i \in 1..Len(signals) : signals[i]}

\* the composite's should_buy / should_sell was evaluated in this tick and
\* answered true
Answered == cpc = "decided" /\ signals # <<>>
Signalled == verdict # HOLD

RECURSIVE SumOver(_, _)
SumOver(f, S) ==
    IF S = {} THEN 0
    ELSE LET x == CHOOSE y \in S : TRUE
         IN  f[x] + SumOver(f, S \ {x})

\* C25: in WEIGHTED mode the composite buy (and sell) signal is true exactly
\* when the weights of the sub-strategies voting true sum to strictly more
\* than 0.5; a sum of exactly 0.5 is not a signal.
C25_WeightedStrictlyAboveHalf ==
    (Answered /\ mode = "weighted") =>
        (Signalled <=> 2 * SumOver(Val(weights), Yes) > WeightOne)

\* weights [0.5, 0.5], votes [true, false]: the score is 0.5, no signal
C25_Witness ==
    /\ Answered
    /\ mode = "weighted"
    /\ weights = Some(<<5000, 5000>>)
    /\ signals = <<TRUE, FALSE>>
    /\ verdict = HOLD

\* C26: in MAJORITY mode the composite signal is true exactly when strictly
\* more than half of the sub-strategies vote true (more vote true than
\* false); a tie is not a signal.
C26_MajorityStrict ==
    (Answered /\ mode = "majority") =>
        (Signalled <=>
            Cardinality(Yes) > Cardinality((1..Len(signals)) \ Yes))

\* two sub-strategies, one vote each way: no signal
C26_Witness ==
    /\ Answered
    /\ mode = "majority"
    /\ signals = <<TRUE, FALSE>>
    /\ verdict = HOLD

\* C27: in ALL mode the composite signal is the logical AND of all sub-votes
\* and in ANY mode their logical OR, for every vote vector of every length
\* from 1 on, for buy and for sell.
C27_AllIsAndAnyIsOr ==
    /\ (Answered /\ mode = "all") =>
          (Signalled <=> ~(\E i \in 1..Len(signals) : ~signals[i]))
    /\ (Answered /\ mode = "any") =>
          (Signalled <=> ~(\A i \in 1..Len(signals) : ~signals[i]))
    /\ Answered => Len(signals) >= 1

\* ALL over the votes [true, false] while LONG: no SELL
C27_Witness ==
    /\ Answered
    /\ mode = "all"
    /\ cposition = LONG
    /\ signals = <<TRUE, FALSE>>
    /\ verdict = HOLD

\* the configurations the constructor must refuse
BadConfiguration ==
    \/ Len(strategies) = 0
    \/ /\ mode = "weighted"
       /\ \/ weights = None
          \/ Len(Val(weights)) # Len(strategies)
          \/ SumOver(Val(weights), DOMAIN Val(weights)) > WeightOne + WeightTolerance
          \/ SumOver(Val(weights), DOMAIN Val(weights)) < WeightOne - WeightTolerance

\* C28: constructing a CompositeStrategy raises a configuration error
\* whenever no sub-strategy is supplied, or WEIGHTED mode is selected without
\* exactly one weight per sub-strategy, or the weights differ from a sum of
\* 1.0 by more than 0.001; the error is raised at construction and never
\* later, so every constructed WEIGHTED composite has one weight per
\* sub-strategy and weights that sum to 1.0 within 0.001.
C28_ConfigurationErrorAtConstruction ==
    /\ []((cpc # "new" /\ BadConfiguration) => cpc = "config_error")
    /\ []((cpc \in {"built", "ready", "decided"} /\ mode = "weighted") =>
             ~BadConfiguration)
    /\ [][cpc' = "config_error" => cpc \in {"new", "config_error"}]_vars

\* one sub-strategy with the weight 0.9: refused at construction
C28_Witness ==
    /\ cpc = "config_error"
    /\ mode = "weighted"
    /\ Len(strategies) = 1
    /\ weights = Some(<<9000>>)

\* C29: on a fill the composite forwards on_buy (on_sell) with the same price
\* to every sub-strategy, so after each fill every sub-strategy has the same
\* position and entry price as the composite.
C29_FillForwardedToEverySub ==
    (cpc = "ready" /\ cfill \in {BUY, SELL}) =>
        /\ \A i \in 1..Len(strategies) :
              /\ strategies[i].position = cposition
              /\ strategies[i].entry_price = centry_price
              /\ \E k \in 1..Len(clog) :
                    clog[k] = Call(i, IF cfill = BUY THEN "on_buy" ELSE "on_sell",
                                   cprice)
        /\ cfill = BUY => cposition = LONG /\ centry_price = Some(cprice)
        /\ cfill = SELL => cposition = FLAT /\ centry_price = None

\* a composite of two sub-strategies was filled at price 2
C29_Witness ==
    /\ cpc = "ready"
    /\ cfill = BUY
    /\ Len(strategies) = 2
    /\ centry_price = Some(2)

\* a step that is a restart: the state file is written and a composite built
\* anew has loaded it
Restarted ==
    /\ cpc \in {"built", "ready"}
    /\ cpc' = "ready"
    /\ saved' # None

\* C36: a restart restores the strategy: load_state on a freshly built
\* strategy of the same shape, given get_state() as save_state wrote it and
\* load_state read it back, yields the same position and entry_price, and
\* for a composite the same position and entry_price of every sub-strategy.
C36_RestartRoundTrip ==
    [][Restarted =>
          /\ saved' = Some(CompositeDocument(
                 CompositeGetState(cposition, centry_price, strategies)))
          /\ cposition' = cposition
          /\ centry_price' = centry_price
          /\ Len(strategies') = Len(strategies)
          /\ \A i \in 1..Len(strategies) :
                /\ strategies'[i].position = strategies[i].position
                /\ strategies'[i].entry_price = strategies[i].entry_price]_vars

\* a composite of three that was restarted while LONG at price 2
C36_Witness ==
    /\ cpc = "ready"
    /\ saved # None
    /\ clog = <<>>
    /\ cposition = LONG
    /\ centry_price = Some(2)
    /\ Len(strategies) = MaxSubs
    /\ \A i \in 1..Len(strategies) :
          strategies[i] = [position |-> LONG, entry_price |-> Some(2)]

\* C37: in every state reached by construction, on_buy, on_sell and
\* load_state of a persisted state, a strategy's entry_price is set if and
\* only if its position is LONG; this holds of the composite and of each of
\* its sub-strategies.
C37_EntryPriceIffLong ==
    /\ (centry_price # None) <=> (cposition = LONG)
    /\ \A i \in 1..Len(strategies) :
          (strategies[i].entry_price # None) <=> (strategies[i].position = LONG)

\* a composite of one, never restarted, that was told of its SELL fill
C37_Witness ==
    /\ cpc = "ready"
    /\ cfill = SELL
    /\ saved = None
    /\ cposition = FLAT
    /\ centry_price = None
    /\ Len(strategies) = 1
    /\ strategies[1] = [position |-> FLAT, entry_price |-> None]

\* C38: in every state reached by construction, fills and load_state of any
\* persisted state, every sub-strategy of a composite has the position of
\* the composite itself.
C38_SubsFollowComposite ==
    cpc \in {"built", "ready", "decided"} =>
        \A i \in 1..Len(strategies) : strategies[i].position = cposition

----------------------------------------------------------------------------
(* The candles table, src/seed_test_data.py insert_candles_to_db, checked  *)
(* under SpecCandles                                                       *)

\* candle timestamps are 1..MaxTimestamp
MaxTimestamp == 2
\* insert_candles_to_db is called at most MaxInserts times
MaxInserts == 2

Timeframes == {"1m", "5m"}

\* the open/high/low/close/volume a provider may report for a bar
BarValues ==
    {[open |-> 1, high |-> 2, low |-> 1, close |-> 2, volume |-> 5],
     [open |-> 1, high |-> 3, low |-> 1, close |-> 3, volume |-> 7]}

\* the candle dicts handed to insert_candles_to_db
Candles ==
    {[timestamp |-> t, open |-> v.open, high |-> v.high, low |-> v.low,
      close |-> v.close, volume |-> v.volume] :
        t \in 1..MaxTimestamp, v \in BarValues}

\* the `candles` argument: a list of one or two candles
Batches == UNION {[1..k -> Candles] : k \in {1, 2}}

\* the parameter tuple of the INSERT statement
Row(timeframe, candle) ==
    [timeframe |-> timeframe, timestamp |-> candle.timestamp,
     open |-> candle.open, high |-> candle.high, low |-> candle.low,
     close |-> candle.close, volume |-> candle.volume]

\* PRIMARY KEY (timeframe, timestamp)
Key(row) == <<row.timeframe, row.timestamp>>

\* an insert into a table that keeps the row already stored under the key
InsertOrReplace_KeepsOld(table, row) == table \cup {row}

\* INSERT OR REPLACE INTO candles: a stored row with the same primary key is
\* deleted, then the new row is inserted
InsertOrReplace(table, row) ==
    {r \in table : Key(r) # Key(row)} \cup {row}

\* `for candle in candles: cursor.execute(INSERT OR REPLACE ...)`
RECURSIVE InsertAll(_, _, _)
InsertAll(table, timeframe, candles) ==
    IF candles = <<>> THEN table
    ELSE InsertAll(InsertOrReplace(table, Row(timeframe, candles[1])),
                   timeframe, Tail(candles))

\* insert_candles_to_db(candles, timeframe, db_path): the table exists or is
\* created, every candle is upserted, the transaction is committed
InsertCandlesToDb ==
    /\ inserts < MaxInserts
    /\ inserts' = inserts + 1
    /\ \E timeframe \in Timeframes, candles \in Batches :
          /\ rows' = InsertAll(rows, timeframe, candles)
          /\ batch' = [timeframe |-> timeframe, candles |-> candles]
    /\ rows_before' = rows
    /\ UNCHANGED <<botVars, traderVars, retryVars, confirmVars, storeVars,
                   compVars, moreVars>>

InitCandles ==
    /\ BotOff /\ TraderIdle /\ RetryIdle /\ ConfirmIdle /\ StoreIdle
    /\ CompositeIdle /\ CandlesIdle /\ MoreIdle

NextCandles == InsertCandlesToDb

SpecCandles == InitCandles /\ [][NextCandles]_vars

\* the rows stored under a key
Stored(table, timeframe, timestamp) ==
    {r \in table : r.timeframe = timeframe /\ r.timestamp = timestamp}

\* the series of a timeframe
Series(table, timeframe) == {r \in table : r.timeframe = timeframe}

\* C30: upserting a candle whose (timeframe, timestamp) is already stored
\* replaces that row: after an insert call exactly one row exists for each
\* key of the batch and it holds the values of the last candle given for
\* that key, no key has two rows, a batch of stored keys leaves the length
\* of the series unchanged, the other rows are untouched, and upserting the
\* same batch once more changes nothing.
C30_UpsertReplaces ==
    LET tf == batch.timeframe
        cs == batch.candles
    IN  /\ \A r1, r2 \in rows : Key(r1) = Key(r2) => r1 = r2
        /\ \A j \in 1..Len(cs) :
              LET last == CHOOSE m \in j..Len(cs) :
                              /\ cs[m].timestamp = cs[j].timestamp
                              /\ \A q \in (m + 1)..Len(cs) :
                                    cs[q].timestamp # cs[j].timestamp
              IN  Stored(rows, tf, cs[j].timestamp) = {Row(tf, cs[last])}
        /\ (\A j \in 1..Len(cs) :
                Stored(rows_before, tf, cs[j].timestamp) # {}) =>
              Cardinality(Series(rows, tf))
                  = Cardinality(Series(rows_before, tf))
        /\ \A r \in rows_before :
              (\A j \in 1..Len(cs) : Key(r) # <<tf, cs[j].timestamp>>) =>
                  r \in rows
        /\ \A tf2 \in Timeframes \ {tf} :
              Series(rows, tf2) = Series(rows_before, tf2)
        /\ InsertAll(rows, tf, cs) = rows

\* a stored bar was upserted with other values: one row, the new values,
\* the series as long as before
C30_Witness ==
    /\ Len(batch.candles) = 1
    /\ \E old \in Stored(rows_before, batch.timeframe,
                         batch.candles[1].timestamp) :
          old # Row(batch.timeframe, batch.candles[1])
    /\ Stored(rows, batch.timeframe, batch.candles[1].timestamp)
           = {Row(batch.timeframe, batch.candles[1])}
    /\ Cardinality(Series(rows, batch.timeframe)) = 2
    /\ Cardinality(Series(rows_before, batch.timeframe)) = 2

----------------------------------------------------------------------------
(* TradingBot.backtest, src/src/main.py:389-496, checked under SpecBacktest *)

\* candles the backtest loop goes through at most
MaxCandles == 4

\* main.py:435, cash = 10000.0
StartingCash == 10000

\* position_size_usdc as configured: the default, a size the starting cash
\* pays for once, and a size it never pays for
BacktestSizes == {PositionSizeUsdc, 6000, 20000}

BacktestFrame ==
    UNCHANGED <<botVars, traderVars, retryVars, confirmVars, storeVars,
                compVars, candleVars, catchupVars>>

\* initialize(strategy, backtest_mode=True): the strategy as constructed
\* loads what the state file holds (main.py:279-299)
BacktestInitialize ==
    /\ bpc = "new"
    /\ \E state \in SavedStates :
          LET s == StrategyLoadState(bposition, bentry_price, state)
          IN  /\ bposition' = s.position
              /\ bentry_price' = s.entry_price
    /\ bpc' = "ready"
    /\ UNCHANGED <<trade_size_usdc, cash, sim_position, trades, candles_done>>
    /\ BacktestFrame

\* backtest(): the backtest state before the loop (main.py:433-438)
BacktestBegin ==
    /\ bpc = "ready"
    /\ cash' = StartingCash
    /\ sim_position' = None
    /\ trades' = <<>>
    /\ candles_done' = 0
    /\ bpc' = "loop"
    /\ UNCHANGED <<bposition, bentry_price, trade_size_usdc>>
    /\ BacktestFrame

\* `signal == Signal.BUY and position is None and cash >= position_size_usdc`
CanBuy(sig, pos, money, size) ==
    sig = BUY /\ pos = None /\ money >= size

\* `signal == Signal.SELL and position is not None`
CanSell(sig, pos) == sig = SELL /\ pos # None

\* cash += size_usdc + pnl_usd with pnl_pct = ((current_price / entry_price)
\* - 1) * 100 and pnl_usd = size_usdc * (pnl_pct / 100): the size at the
\* exit price over the entry price
Proceeds(pos, price) == (pos.size_usdc * price) \div pos.entry_price

\* one pass of `for i, candle in enumerate(candle_list.candles)`:
\* update(), get_signal(), and the simulated order (main.py:445-496)
BacktestCandle ==
    /\ bpc = "loop"
    /\ candles_done < MaxCandles
    /\ candles_done' = candles_done + 1
    /\ \E price \in Prices, sb \in BOOLEAN, ss \in BOOLEAN :
          LET sig == GetSignal(bposition, sb, ss).signal
          IN  IF CanBuy(sig, sim_position, cash, trade_size_usdc)
              THEN /\ sim_position' = Some([entry_price |-> price,
                                            size_usdc |-> trade_size_usdc])
                   /\ cash' = cash - trade_size_usdc
                   /\ bposition' = OnBuy(price).position
                   /\ bentry_price' = OnBuy(price).entry_price
                   /\ trades' = Append(trades, BUY)
              ELSE IF CanSell(sig, sim_position)
              THEN /\ cash' = cash + Proceeds(Val(sim_position), price)
                   /\ bposition' = OnSell(price).position
                   /\ bentry_price' = OnSell(price).entry_price
                   /\ sim_position' = None
                   /\ trades' = Append(trades, SELL)
              ELSE UNCHANGED <<sim_position, cash, bposition, bentry_price,
                               trades>>
    /\ UNCHANGED <<bpc, trade_size_usdc>>
    /\ BacktestFrame

\* the candle list is exhausted: the summary is logged
BacktestEnd ==
    /\ bpc = "loop"
    /\ bpc' = "done"
    /\ UNCHANGED <<bposition, bentry_price, trade_size_usdc, cash,
                   sim_position, trades, candles_done>>
    /\ BacktestFrame

\* a bot built for a backtest: the strategy as constructed, a configured
\* position size
BacktestArgs ==
    /\ bpc = "new"
    /\ bposition = FLAT
    /\ bentry_price = None
    /\ trade_size_usdc \in BacktestSizes
    /\ cash = 0
    /\ sim_position = None
    /\ trades = <<>>
    /\ candles_done = 0

InitBacktest ==
    /\ BotOff /\ TraderIdle /\ RetryIdle /\ ConfirmIdle /\ StoreIdle
    /\ CompositeIdle /\ CandlesIdle /\ BacktestArgs /\ CatchUpIdle

NextBacktest ==
    \/ BacktestInitialize
    \/ BacktestBegin
    \/ BacktestCandle
    \/ BacktestEnd

SpecBacktest == InitBacktest /\ [][NextBacktest]_vars

\* C39: during a backtest, after every candle the simulated position is
\* open if and only if the strategy's position is LONG, whatever persisted
\* state the strategy was initialized with and whatever cash remains, and
\* the simulated orders are BUY, SELL, BUY, ... in strict alternation.
C39_SimulatedPositionFollowsStrategy ==
    (bpc \in {"loop", "done"} /\ candles_done >= 1) =>
        /\ (sim_position # None) <=> (bposition = LONG)
        /\ \A i \in 1..Len(trades) :
              trades[i] = IF i % 2 = 1 THEN BUY ELSE SELL

----------------------------------------------------------------------------
(* Startup catch-up: CandleStore.get_catch_up_info and bulk_insert, after   *)
(* the catch-up algorithm of the candle cache, and the startup fetch of     *)
(* TradingBot.initialize, src/src/main.py:215-277. Checked under            *)
(* SpecCatchUp. A bar is named by its number; its timestamp is the number   *)
(* times the seconds of the timeframe.                                      *)

\* the store is 0..MaxBehind bars behind, or far behind
MaxBehind == 3

\* main.py:236, the full-fetch threshold in bars
FullFetchThreshold == 10000

\* the number of the latest stored bar when the startup begins
LatestBar == 20000

Max(a, b) == IF a > b THEN a ELSE b

Run(lo, hi) == [lo |-> lo, hi |-> hi]

\* count of stored candles of the timeframe
RECURSIVE CountBars(_)
CountBars(runs) ==
    IF runs = <<>> THEN 0
    ELSE (runs[1].hi - runs[1].lo + 1) + CountBars(Tail(runs))

\* candles_needed taken as the shortfall alone
CandlesNeeded_ShortfallOnly(existing_count, required, minutes_behind) ==
    required - existing_count

\* candles_needed when data exists
CandlesNeeded(existing_count, required, minutes_behind) ==
    Min(required - existing_count, minutes_behind)

\* get_catch_up_info(timeframe, required_count)
GetCatchUpInfoOf(runs, now, seconds, required) ==
    IF runs = <<>>
    THEN [existing_count |-> 0,
          latest_timestamp |-> None,
          minutes_behind |-> None,
          candles_needed |-> required,
          should_full_fetch |-> TRUE]
    ELSE LET latest == runs[Len(runs)].hi * seconds
             behind == (now - latest) \div seconds
         IN  [existing_count |-> CountBars(runs),
              latest_timestamp |-> Some(latest),
              minutes_behind |-> Some(behind),
              candles_needed |-> CandlesNeeded(CountBars(runs), required, behind),
              should_full_fetch |-> behind > FullFetchThreshold]

\* what a provider returns for (timeframe, limit): the newest `limit` bars
Newest(now, seconds, limit) ==
    Run((now \div seconds) - limit + 1, now \div seconds)

\* bulk_insert(timeframe, candles): insert-or-replace of a run of bars that
\* ends no earlier than the stored series
RECURSIVE BulkInsert(_, _)
BulkInsert(runs, r) ==
    IF runs = <<>> THEN <<r>>
    ELSE LET last == runs[Len(runs)]
         IN  IF last.hi + 1 < r.lo
             THEN Append(runs, r)
             ELSE BulkInsert(SubSeq(runs, 1, Len(runs) - 1),
                             Run(Min(last.lo, r.lo), Max(last.hi, r.hi)))

\* the catch-up fetch tried before the full fetch
StartupBranch_DeltaFirst(info) ==
    IF info.candles_needed > 0 THEN "catch_up"
    ELSE IF info.should_full_fetch THEN "full" ELSE "up_to_date"

\* initialize(): `if catch_up_info['should_full_fetch']: ... elif
\* catch_up_info['candles_needed'] > 0: ... else: ...`
StartupBranch(info) ==
    IF info.should_full_fetch THEN "full"
    ELSE IF info.candles_needed > 0 THEN "catch_up" ELSE "up_to_date"

CatchUpFrame ==
    UNCHANGED <<botVars, traderVars, retryVars, confirmVars, storeVars,
                compVars, candleVars, backtestVars>>

\* catch_up_info = self.candle_store.get_catch_up_info(startup_tf,
\* startup_limit)
GetCatchUpInfo ==
    /\ kpc = "start"
    /\ catch_up_info' = Some(GetCatchUpInfoOf(bars, clock, timeframe_seconds,
                                              required_count))
    /\ kpc' = "checked"
    /\ UNCHANGED <<bars, bars_before, clock, timeframe_seconds,
                   required_count, provider, fetch_limit, fetched>>
    /\ CatchUpFrame

\* a fetch of `limit` candles and, when it returned candles, bulk_insert
FetchAndStore(from, limit) ==
    /\ provider' = from
    /\ fetch_limit' = limit
    /\ bars_before' = bars
    /\ \E ok \in BOOLEAN :
          IF ok
          THEN /\ fetched' = Some(Newest(clock, timeframe_seconds, limit))
               /\ bars' = BulkInsert(bars,
                                     Newest(clock, timeframe_seconds, limit))
          ELSE /\ fetched' = None
               /\ UNCHANGED bars
    /\ kpc' = "done"
    /\ UNCHANGED <<clock, timeframe_seconds, required_count, catch_up_info>>
    /\ CatchUpFrame

\* the full fetch: fetch_startup_historical_data(timeframe, limit =
\* startup_limit)
FullFetch ==
    /\ kpc = "checked"
    /\ StartupBranch(Val(catch_up_info)) = "full"
    /\ FetchAndStore("historical", required_count)

\* the catch-up fetch: fetch_runtime_candles(timeframe, limit =
\* candles_needed)
CatchUpFetch ==
    /\ kpc = "checked"
    /\ StartupBranch(Val(catch_up_info)) = "catch_up"
    /\ FetchAndStore("runtime", Val(catch_up_info).candles_needed)

\* "Data is already up-to-date, no fetch needed"
UpToDate ==
    /\ kpc = "checked"
    /\ StartupBranch(Val(catch_up_info)) = "up_to_date"
    /\ kpc' = "done"
    /\ bars_before' = bars
    /\ UNCHANGED <<bars, clock, timeframe_seconds, required_count,
                   catch_up_info, provider, fetch_limit, fetched>>
    /\ CatchUpFrame

\* how many bars the store is behind when the startup begins
BehindBars == (0..MaxBehind) \cup {5, 50, FullFetchThreshold,
                                   FullFetchThreshold + 1}

\* a store at startup: empty, or one run of bars ending at LatestBar, and a
\* clock that many bars later, on a bar boundary or half a minute past it
CatchUpArgs ==
    /\ kpc = "start"
    /\ \E n \in {0, 1, 2, 9995, 10000} :
          bars = IF n = 0 THEN <<>>
                 ELSE <<Run(LatestBar - n + 1, LatestBar)>>
    /\ bars_before = bars
    /\ timeframe_seconds \in {60, 300}
    /\ \E behind \in BehindBars, past \in {0, 30} :
          clock = (LatestBar + behind) * timeframe_seconds + past
    /\ required_count \in {3, 10000}
    /\ catch_up_info = None
    /\ provider = "none"
    /\ fetch_limit = 0
    /\ fetched = None

InitCatchUp ==
    /\ BotOff /\ TraderIdle /\ RetryIdle /\ ConfirmIdle /\ StoreIdle
    /\ CompositeIdle /\ CandlesIdle /\ BacktestIdle /\ CatchUpArgs

NextCatchUp ==
    \/ GetCatchUpInfo
    \/ FullFetch
    \/ CatchUpFetch
    \/ UpToDate

SpecCatchUp == InitCatchUp /\ [][NextCatchUp]_vars

\* the timestamps of the newest bar of each stored run
RunEnds(runs, seconds) == {runs[k].hi * seconds : k \in 1..Len(runs)}

\* the numbers of the stored bars
StoredBars(runs) == UNION {runs[k].lo..runs[k].hi : k \in 1..Len(runs)}

\* C31: the cache introduces no gap: once the startup catch-up has fetched
\* and stored its candles_needed candles, no bar is missing between the bar
\* that was the latest stored one and the newest stored bar, whatever the
\* existing count, the required count and the number of bars behind below
\* the full-fetch threshold.
C31_NoGapAfterCatchUp ==
    (kpc = "done" /\ provider = "runtime" /\ fetched # None) =>
        \E k \in 1..Len(bars) :
            /\ bars[k].lo <= bars_before[Len(bars_before)].hi
            /\ Val(fetched).hi <= bars[k].hi

\* C32: when data exists, latest_timestamp is the maximum stored timestamp,
\* minutes_behind is (now - latest_timestamp) / timeframe_seconds in whole
\* bars and candles_needed is the smaller of required_count - existing_count
\* and minutes_behind; with no data candles_needed is required_count. With
\* 9995 of 10000 candles, 60 s bars and 300 s behind: 5 behind, 5 needed.
C32_CatchUpComputation ==
    kpc = "checked" =>
        LET i == Val(catch_up_info)
            shortfall == required_count - i.existing_count
        IN  /\ i.existing_count = Cardinality(StoredBars(bars))
            /\ bars = <<>> =>
                  /\ i.latest_timestamp = None
                  /\ i.candles_needed = required_count
            /\ bars # <<>> =>
                  /\ i.latest_timestamp # None
                  /\ Val(i.latest_timestamp) \in RunEnds(bars, timeframe_seconds)
                  /\ \A t \in RunEnds(bars, timeframe_seconds) :
                        t <= Val(i.latest_timestamp)
                  /\ Val(i.minutes_behind) * timeframe_seconds
                        <= clock - Val(i.latest_timestamp)
                  /\ clock - Val(i.latest_timestamp)
                        < (Val(i.minutes_behind) + 1) * timeframe_seconds
                  /\ i.candles_needed =
                        IF shortfall <= Val(i.minutes_behind)
                        THEN shortfall ELSE Val(i.minutes_behind)
            /\ (/\ i.existing_count = 9995 /\ required_count = 10000
                /\ timeframe_seconds = 60
                /\ clock - Val(i.latest_timestamp) = 300) =>
                  /\ i.minutes_behind = Some(5)
                  /\ i.candles_needed = 5
                  /\ ~i.should_full_fetch

\* 9995 of 10000 candles stored, 60 s bars, the clock 300 s after the latest
C32_Witness ==
    /\ kpc = "checked"
    /\ CountBars(bars) = 9995
    /\ required_count = 10000
    /\ timeframe_seconds = 60
    /\ clock = (LatestBar + 5) * 60
    /\ Val(catch_up_info).candles_needed = 5

\* C33: should_full_fetch is true exactly when no candle is stored for the
\* timeframe or minutes_behind exceeds the full-fetch threshold, so with no
\* data it is true for every required_count; startup then fetches
\* required_count candles from the historical provider, and otherwise
\* fetches nothing or candles_needed candles, no more than the bars it is
\* behind, from the runtime provider.
C33_FullFetchDecision ==
    kpc \in {"checked", "done"} =>
        LET i == Val(catch_up_info)
        IN  /\ i.should_full_fetch <=>
                  \/ bars_before = <<>>
                  \/ Val(i.minutes_behind) > FullFetchThreshold
            /\ (kpc = "done" /\ i.should_full_fetch) =>
                  /\ provider = "historical"
                  /\ fetch_limit = required_count
            /\ (kpc = "done" /\ ~i.should_full_fetch) =>
                  /\ provider \in {"runtime", "none"}
                  /\ provider = "runtime" =>
                        /\ fetch_limit = i.candles_needed
                        /\ fetch_limit >= 1
                        /\ fetch_limit <= Val(i.minutes_behind)
                  /\ provider = "none" => (bars = bars_before /\ fetched = None)

\* an empty store was filled from the historical provider
C33_Witness ==
    /\ kpc = "done"
    /\ bars_before = <<>>
    /\ provider = "historical"
    /\ required_count = 3
    /\ fetched # None
    /\ CountBars(bars) = 3

====
